---- MODULE Spec2Model ----
(***************************************************************************)
(* StudyTap backend: the retrieval-augmented chat turn (routers/chat.py),  *)
(* the Kendra retrieval adapter (kendra_client.py) and the Gemini client   *)
(* (gemini_client.py), as state machines over Python-like values.          *)
(*                                                                         *)
(* Python values: a str is a TLA+ string; Optional[x] is <<>> (None) or    *)
(* <<x>>; a list is a sequence; a dict with known keys is a record.        *)
(***************************************************************************)
EXTENDS Integers, Sequences, FiniteSets, TLC

VARIABLES
    env,        \* module-level configuration read at import time
    db,         \* the persisted rows: the chat, its messages
    req,        \* per request of send_message: its position and locals
    ext,        \* what went out to the external services (search, LLM)
    kcall       \* one direct call of query_kendra: its arguments and outcome

vars == <<env, db, req, ext, kcall>>

None == <<>>
Some(x) == <<x>>
IsNone(o) == o = <<>>
Val(o) == o[1]

(***************************************************************************)
(* Python str operations                                                   *)
(***************************************************************************)
Char(s, i) == SubSeq(s, i, i)

\* p in s
Contains(s, p) ==
    \E i \in 1..(Len(s) - Len(p) + 1) : SubSeq(s, i, i + Len(p) - 1) = p

\* s.startswith(p)
StartsWith(s, p) == Len(s) >= Len(p) /\ SubSeq(s, 1, Len(p)) = p

MinOr0(S) == IF S = {} THEN 0 ELSE CHOOSE i \in S : \A j \in S : i <= j
MaxOr0(S) == IF S = {} THEN 0 ELSE CHOOSE i \in S : \A j \in S : i >= j

\* The places of p in s
Places(s, p) == {i \in 1..(Len(s) - Len(p) + 1) : SubSeq(s, i, i + Len(p) - 1) = p}

\* s.find(p) + 1: the first place of p in s, 0 when absent
Find(s, p) == MinOr0(Places(s, p))

\* s.rfind(p) + 1: the last place of p in s, 0 when absent
RFind(s, p) == MaxOr0(Places(s, p))

\* s[:i-1] if p is at place i of s, s itself if i is 0
Before(s, i) == IF i = 0 THEN s ELSE SubSeq(s, 1, i - 1)

From(s, i) == SubSeq(s, i, Len(s))

UpperLetters == "ABCDEFGHIJKLMNOPQRSTUVWXYZ"
LowerLetters == "abcdefghijklmnopqrstuvwxyz"
Digits == "0123456789"

IsSpace(c) == c \in {" ", "\t", "\n", "\r"}
IsAlnum(c) == Contains(UpperLetters, c) \/ Contains(LowerLetters, c) \/ Contains(Digits, c)

\* The lower-case letter of each upper-case letter, and the converse
ToLower ==
    [c \in {Char(UpperLetters, i) : i \in 1..26} |->
        Char(LowerLetters, Find(UpperLetters, c))]

ToUpper ==
    [c \in {Char(LowerLetters, i) : i \in 1..26} |->
        Char(UpperLetters, Find(LowerLetters, c))]

LowerChar(c) == IF c \in DOMAIN ToLower THEN ToLower[c] ELSE c

UpperChar(c) == IF c \in DOMAIN ToUpper THEN ToUpper[c] ELSE c

\* s.lower()
RECURSIVE Lower(_)
Lower(s) ==
    IF Len(s) <= 1 THEN LowerChar(s)
    ELSE Lower(SubSeq(s, 1, Len(s) \div 2)) \o Lower(From(s, (Len(s) \div 2) + 1))

\* s.upper()
RECURSIVE Upper(_)
Upper(s) ==
    IF Len(s) <= 1 THEN UpperChar(s)
    ELSE Upper(SubSeq(s, 1, Len(s) \div 2)) \o Upper(From(s, (Len(s) \div 2) + 1))

\* s.lstrip(), s.rstrip(), s.strip()
RECURSIVE LStrip(_)
LStrip(s) == IF s /= "" /\ IsSpace(Char(s, 1)) THEN LStrip(From(s, 2)) ELSE s

RECURSIVE RStrip(_)
RStrip(s) ==
    IF s /= "" /\ IsSpace(Char(s, Len(s))) THEN RStrip(SubSeq(s, 1, Len(s) - 1)) ELSE s

Strip(s) == RStrip(LStrip(s))

\* s.lstrip("/")
RECURSIVE LStripSlash(_)
LStripSlash(s) == IF s /= "" /\ Char(s, 1) = "/" THEN LStripSlash(From(s, 2)) ELSE s

\* len(s.split()): the number of maximal runs of non-whitespace
WordCount(s) ==
    Cardinality({i \in 1..Len(s) :
        /\ ~IsSpace(Char(s, i))
        /\ (i = 1 \/ IsSpace(Char(s, i - 1)))})

\* sum(1 for c in s if c.isalnum())
AlnumCount(s) == Cardinality({i \in 1..Len(s) : IsAlnum(Char(s, i))})

\* str(n) of an int
RECURSIVE NatStr(_)
NatStr(n) == IF n < 10 THEN Char(Digits, n + 1) ELSE NatStr(n \div 10) \o Char(Digits, (n % 10) + 1)

IntStr(n) == IF n < 0 THEN "-" \o NatStr(0 - n) ELSE NatStr(n)

\* the place of the n-th "/" of s, 0 when s has fewer
NthOf(P, n) ==
    IF Cardinality(P) < n THEN 0
    ELSE CHOOSE i \in P : Cardinality({j \in P : j <= i}) = n

NthSlash(s, n) == NthOf(Places(s, "/"), n)

(***************************************************************************)
(* kendra_client.py: the retrieval adapter                                 *)
(***************************************************************************)

\* urllib.parse.urlparse(uri).path of an https:// URI: the netloc ends at the
\* first of "/", "?" and "#"; a netloc with one bracket only raises ValueError;
\* the fragment, the query and the last segment's ;params are cut off.
\* The length of the netloc of rest, the text after "https://"
NetlocLen(rest) ==
    MinOr0({i \in 1..(Len(rest) + 1) :
               i = Len(rest) + 1 \/ Char(rest, i) \in {"/", "?", "#"}}) - 1

\* url without its ;params: cut at the first ";" after the last "/"
CutParamsAt(url, lastSlash) ==
    Before(url, IF Find(From(url, lastSlash + 1), ";") = 0 THEN 0
                ELSE lastSlash + Find(From(url, lastSlash + 1), ";"))

CutParams(url) == CutParamsAt(url, RFind(url, "/"))
CutQuery(url) == Before(url, Find(url, "?"))
CutFragment(url) == Before(url, Find(url, "#"))

UrlSplit(netloc, url) ==
    IF Contains(netloc, "[") /= Contains(netloc, "]")
    THEN [raised |-> TRUE, path |-> ""]
    ELSE [raised |-> FALSE, path |-> CutParams(CutQuery(CutFragment(url)))]

UrlSplitAt(rest, n) == UrlSplit(SubSeq(rest, 1, n), From(rest, n + 1))

UrlParseRest(rest) == UrlSplitAt(rest, NetlocLen(rest))

UrlParsePath(uri) == UrlParseRest(From(uri, Len("https://") + 1))

\* The except branch of the https case: a textual search for the key.
\* whole if p is not in s, or else what follows the first p in s
AfterFirst(s, p, whole) ==
    IF Find(s, p) = 0 THEN whole ELSE From(s, Find(s, p) + Len(p))

NormalizeFallback(document_uri) ==
    IF Contains(document_uri, ".amazonaws.com")
    THEN AfterFirst(document_uri, ".amazonaws.com/", document_uri)
    ELSE IF Contains(document_uri, ".s3.")
    THEN AfterFirst(AfterFirst(document_uri, ".s3.", document_uri), "/", document_uri)
    ELSE document_uri

\* uri_to_check: the key part of the DocumentURI
\* parts[3] of split("/", 3) when there are four parts
AfterSlashAt(document_uri, third) ==
    IF third = 0 THEN document_uri ELSE From(document_uri, third + 1)

PathOrFallback(document_uri, parsed) ==
    IF parsed.raised THEN NormalizeFallback(document_uri) ELSE LStripSlash(parsed.path)

Normalize(document_uri) ==
    IF StartsWith(document_uri, "s3://")
    THEN AfterSlashAt(document_uri, NthSlash(document_uri, 3))
    ELSE IF StartsWith(document_uri, "https://")
    THEN PathOrFallback(document_uri, UrlParsePath(document_uri))
    ELSE document_uri

\* Python truthiness of an Optional[int]: None and 0 are falsy
Truthy(optInt) == ~IsNone(optInt) /\ Val(optInt) /= 0

s3_university_pattern(university_id) == "universities/" \o IntStr(university_id) \o "/"

\* f"branches/{branch_id}/" if branch_id else None
s3_branch_pattern(branch_id) ==
    IF Truthy(branch_id) THEN Some("branches/" \o IntStr(Val(branch_id)) \o "/") ELSE None

\* f"subjects/{subject_id}/" if subject_id else None
s3_subject_pattern(subject_id) ==
    IF Truthy(subject_id) THEN Some("subjects/" \o IntStr(Val(subject_id)) \o "/") ELSE None

\* pattern in uri_to_check if pattern else True
HasPattern(pattern, uri_to_check) ==
    IF IsNone(pattern) THEN TRUE ELSE Contains(uri_to_check, Val(pattern))

ScopeMatch(has_university, has_branch, has_subject, subject_id, branch_id, disable_filtering) ==
    IF disable_filtering \/ env.KENDRA_DISABLE_FILTERING THEN TRUE
    ELSE IF ~IsNone(subject_id) THEN has_university /\ has_subject
    ELSE IF ~IsNone(branch_id) THEN has_university /\ has_branch
    ELSE FALSE

should_include(uri_to_check, university_id, subject_id, branch_id, disable_filtering) ==
    ScopeMatch(Contains(uri_to_check, s3_university_pattern(university_id)),
               HasPattern(s3_branch_pattern(branch_id), uri_to_check),
               HasPattern(s3_subject_pattern(subject_id), uri_to_check),
               subject_id, branch_id, disable_filtering)

min_excerpt_length == 30
MinWords == 5

\* alphanumeric_chars < len(excerpt) * 0.3: the float product decides as the
\* integer comparison does for every length below 2000.
TooFewAlnum(alnum, length) == 10 * alnum < 3 * length

\* The checks without the one on the length
QualityChecks_NoLength(excerpt) ==
    /\ WordCount(excerpt) >= MinWords
    /\ ~TooFewAlnum(AlnumCount(excerpt), Len(excerpt))

\* The checks on excerpt, the stripped text
QualityChecks(excerpt) ==
    /\ Len(excerpt) >= min_excerpt_length
    /\ WordCount(excerpt) >= MinWords
    /\ ~TooFewAlnum(AlnumCount(excerpt), Len(excerpt))

_is_quality_result(result, question) == QualityChecks(Strip(result.excerpt))

\* The text of an ANSWER hit taken from DocumentExcerpt as for a DOCUMENT hit
ExcerptText_FromExcerpt(item) ==
    IF item.Type \in {"DOCUMENT", "ANSWER"} THEN item.ExcerptText ELSE ""

\* Excerpt text by kind: DOCUMENT reads DocumentExcerpt.Text; ANSWER reads the
\* AnswerText attribute and falls back to DocumentExcerpt.Text; any other type
\* leaves the text empty.
ExcerptText(item) ==
    IF item.Type = "DOCUMENT" THEN item.ExcerptText
    ELSE IF item.Type = "ANSWER"
    THEN IF IsNone(item.AnswerText) \/ item.AnswerText = Some("")
         THEN item.ExcerptText
         ELSE Val(item.AnswerText)
    ELSE ""

KendraResult(item) ==
    [ excerpt         |-> ExcerptText(item),
      document_title  |-> IF item.DocumentTitle = "" THEN "Unknown" ELSE item.DocumentTitle,
      document_uri    |-> item.DocumentURI,
      s3_key          |-> Normalize(item.DocumentURI),
      relevance_score |-> item.ScoreConfidence,
      type            |-> item.Type ]

\* The quality filter applied to every kind of hit
AcceptsResult_NoBypass(result, question, university_id, subject_id, branch_id, disable_filtering) ==
    /\ should_include(result.s3_key, university_id, subject_id, branch_id,
                      disable_filtering)
    /\ Len(Strip(result.excerpt)) > 0
    /\ _is_quality_result(result, question)

\* Whether the loop body appends the item's result
AcceptsResult(result, question, university_id, subject_id, branch_id, disable_filtering) ==
    /\ should_include(result.s3_key, university_id, subject_id, branch_id,
                      disable_filtering)
    /\ Len(Strip(result.excerpt)) > 0
    /\ (result.type = "ANSWER" \/ _is_quality_result(result, question))

Accepts(item, question, university_id, subject_id, branch_id, disable_filtering) ==
    AcceptsResult(KendraResult(item), question, university_id, subject_id, branch_id,
                  disable_filtering)

\* The loop over response["ResultItems"]: append what is accepted, and break
\* once len(results) >= max_results, a test made only after an append.
RECURSIVE FilterItems(_, _, _, _, _, _, _, _)
FilterItems(items, results, question, university_id, subject_id, branch_id, max_results, disable_filtering) ==
    IF items = <<>> THEN results
    ELSE IF ~Accepts(Head(items), question, university_id, subject_id, branch_id,
                     disable_filtering)
    THEN FilterItems(Tail(items), results, question, university_id, subject_id,
                     branch_id, max_results, disable_filtering)
    ELSE IF Len(results) + 1 >= max_results
    THEN Append(results, KendraResult(Head(items)))
    ELSE FilterItems(Tail(items), Append(results, KendraResult(Head(items))), question,
                     university_id, subject_id, branch_id, max_results, disable_filtering)

\* The error raised after the query went out
Raise_AfterQuery(msg) == [raised |-> Some(msg), results |-> <<>>, queried |-> TRUE]

\* raise ValueError(msg) before kendra_client.query is called
Raise(msg) == [raised |-> Some(msg), results |-> <<>>, queried |-> FALSE]

\* query_kendra: response is what kendra_client.query does, an error or the
\* ResultItems. queried tells whether the query went out.
query_kendra(question, university_id, subject_id, branch_id, max_results, disable_filtering, response) ==
    IF ~env.KENDRA_ENABLED
    THEN Raise("Kendra is not configured. Please check your environment variables.")
    ELSE IF IsNone(subject_id) /\ IsNone(branch_id)
    THEN Raise("Either subject_id or branch_id must be provided")
    ELSE IF response.error
    THEN [raised |-> Some("Kendra query failed"), results |-> <<>>, queried |-> TRUE]
    ELSE [raised  |-> None,
          results |-> FilterItems(response.items, <<>>, question, university_id,
                                  subject_id, branch_id, max_results, disable_filtering),
          queried |-> TRUE]

(***************************************************************************)
(* The world the requests run in                                           *)
(***************************************************************************)
\* The student of the requests, the subject and the branch of the chat
Student == [id |-> 1, university_id |-> 1]
Subject == [id |-> 3, name |-> "DBMS", university_id |-> 1]
Branch == [id |-> 2, university_id |-> 1]

GoodExcerpt == "Normalization reduces redundancy in relational tables."
ShortExcerpt == "see page 4"

Hit(uri, type, title, text, answer) ==
    [ DocumentURI |-> uri, Type |-> type, DocumentTitle |-> title,
      ExcerptText |-> text, AnswerText |-> answer, ScoreConfidence |-> "HIGH" ]

\* In the subject and in the branch of the chat, as an s3:// URI
HitInScope ==
    Hit("s3://bucket/universities/1/branches/2/subjects/3/materials/a.pdf",
        "DOCUMENT", "a.pdf", GoodExcerpt, None)
\* Same university and branch, another subject, as a virtual-hosted https URL
HitOtherSubject ==
    Hit("https://bucket.s3.amazonaws.com/universities/1/branches/2/subjects/4/materials/b.pdf",
        "DOCUMENT", "b.pdf", GoodExcerpt, None)
\* Another university whose id starts with the same digit, as a bare key
HitOtherUniversity ==
    Hit("universities/11/branches/2/subjects/3/materials/c.pdf",
        "DOCUMENT", "c.pdf", GoodExcerpt, None)
\* Both segments present, subject before university, regional https URL
HitSwapped ==
    Hit("https://bucket.s3.ap-south-1.amazonaws.com/subjects/3/universities/1/d.pdf",
        "DOCUMENT", "d.pdf", GoodExcerpt, None)
\* Same university, another branch and subject
HitOtherBranch ==
    Hit("s3://bucket/universities/1/branches/5/subjects/9/materials/e.pdf",
        "DOCUMENT", "e.pdf", GoodExcerpt, None)
\* In scope, an ANSWER hit with a short answer text
HitAnswer ==
    Hit("s3://bucket/universities/1/branches/2/subjects/3/materials/f.pdf",
        "ANSWER", "f.pdf", "", Some(ShortExcerpt))
\* In scope, a DOCUMENT hit that fails the quality filter
HitShort ==
    Hit("universities/1/branches/2/subjects/3/materials/g.pdf",
        "DOCUMENT", "g.pdf", ShortExcerpt, None)

Hits == {HitInScope, HitOtherSubject, HitOtherUniversity, HitSwapped,
         HitOtherBranch, HitAnswer, HitShort}

MaxItems == 2

RECURSIVE SeqsUpTo(_, _)
SeqsUpTo(S, n) ==
    IF n = 0 THEN {<<>>}
    ELSE LET shorter == SeqsUpTo(S, n - 1)
         IN  shorter \cup {Append(q, x) : q \in {t \in shorter : Len(t) = n - 1}, x \in S}

Envs ==
    [ KENDRA_ENABLED : BOOLEAN, KENDRA_DISABLE_FILTERING : BOOLEAN,
      GEMINI_API_KEY : {"", "key"},
      GEMINI_MODEL : {"gemini-1.5-flash", "gemini-2.5-flash"} ]

NoDb == [chat |-> None, messages |-> <<>>, student_branch_id |-> None]
NoExt == [kendra_queries |-> 0, gemini_calls |-> 0]
NoCall == [args |-> None, out |-> None]

(***************************************************************************)
(* SpecKendra: one call of query_kendra on arguments and a service         *)
(* response drawn from bounded sets                                        *)
(***************************************************************************)
MaxResultsArg == 2

KendraArgs ==
    [ university_id : {Student.university_id, 11},
      subject_id : {None, Some(0), Some(Subject.id)},
      branch_id : {None, Some(0), Some(Branch.id)},
      max_results : 0..MaxResultsArg,
      disable_filtering : BOOLEAN,
      response : [error : BOOLEAN, items : SeqsUpTo(Hits, MaxItems)] ]

InitKendra ==
    /\ env \in {e \in Envs : e.GEMINI_API_KEY = "key" /\ e.GEMINI_MODEL = "gemini-1.5-flash"}
    /\ db = NoDb
    /\ req = <<>>
    /\ ext = NoExt
    /\ kcall \in {[args |-> Some(a), out |-> None] : a \in KendraArgs}

KendraCall ==
    /\ ~IsNone(kcall.args) /\ IsNone(kcall.out)
    /\ LET a == Val(kcall.args)
       IN  kcall' = [kcall EXCEPT !.out =
                Some(query_kendra("what is normalization", a.university_id, a.subject_id,
                                  a.branch_id, a.max_results, a.disable_filtering,
                                  a.response))]
    /\ UNCHANGED <<env, db, req, ext>>

NextKendra == KendraCall

SpecKendra == InitKendra /\ [][NextKendra]_vars

\* The call returned (did not raise) with filtering on
KendraReturnedFiltered ==
    /\ ~IsNone(kcall.out)
    /\ IsNone(Val(kcall.out).raised)
    /\ ~Val(kcall.args).disable_filtering
    /\ ~env.KENDRA_DISABLE_FILTERING

\* C1: with filtering on, every returned result's s3_key contains
\* 'universities/{university_id}/' and 'subjects/{subject_id}/' when subject_id
\* is given, or 'branches/{branch_id}/' when only branch_id is given.
C1_TenantIsolation ==
    KendraReturnedFiltered =>
        LET a == Val(kcall.args)
            results == Val(kcall.out).results
        IN  \A i \in 1..Len(results) :
                /\ Contains(results[i].s3_key,
                            "universities/" \o IntStr(a.university_id) \o "/")
                /\ (~IsNone(a.subject_id) =>
                        Contains(results[i].s3_key,
                                 "subjects/" \o IntStr(Val(a.subject_id)) \o "/"))
                /\ (IsNone(a.subject_id) /\ ~IsNone(a.branch_id) =>
                        Contains(results[i].s3_key,
                                 "branches/" \o IntStr(Val(a.branch_id)) \o "/"))

(***************************************************************************)
(* gemini_client.py: get_gemini_response                                   *)
(***************************************************************************)

\* list(dict.fromkeys(models)): duplicates removed, order kept
RECURSIVE DedupeInto(_, _)
DedupeInto(seen, models) ==
    IF models = <<>> THEN seen
    ELSE IF \E i \in 1..Len(seen) : seen[i] = Head(models)
    THEN DedupeInto(seen, Tail(models))
    ELSE DedupeInto(Append(seen, Head(models)), Tail(models))

Dedupe(models) == DedupeInto(<<>>, models)

models_to_try == Dedupe(<<env.GEMINI_MODEL, "gemini-2.5-flash", "gemini-flash-latest">>)

\* What one POST to a model's generateContent comes to
Attempt(kind, text) == [kind |-> kind, text |-> text]

\* last_error after a failed attempt on model_name
AttemptError(attempt, model_name) ==
    CASE attempt.kind = "no_text"   -> "No text in response"
      [] attempt.kind = "api_error" -> "Gemini API error: " \o attempt.text
      [] attempt.kind = "404"       -> "Model " \o model_name \o " not found (404)"
      [] attempt.kind = "status"    -> "Status 500: " \o attempt.text
      [] attempt.kind = "transport" -> "HTTP error: " \o attempt.text
      [] OTHER                      -> "Unexpected error: " \o attempt.text

\* The loop over models_to_try from the i-th model on; script[i] is what the
\* i-th request comes to. The first 200 with text returns it stripped; when the
\* list is exhausted the failure is raised.
RECURSIVE TryModels(_, _, _)
TryModels(i, script, last_error) ==
    IF i > Len(models_to_try)
    THEN [ raised |-> Some("Failed to get response from Gemini API after trying "
                           \o IntStr(Len(models_to_try)) \o " models. Last error: "
                           \o last_error \o ". Please check your GEMINI_API_KEY and "
                           \o "ensure it has access to Gemini models."),
           text |-> "", attempts |-> i - 1 ]
    ELSE IF script[i].kind = "text"
    THEN [raised |-> None, text |-> Strip(script[i].text), attempts |-> i]
    ELSE TryModels(i + 1, script, AttemptError(script[i], models_to_try[i]))

get_gemini_response(full_prompt, script) ==
    IF env.GEMINI_API_KEY = ""
    THEN [ raised |-> Some("GEMINI_API_KEY is not set in environment variables"),
           text |-> "", attempts |-> 0 ]
    ELSE TryModels(1, script, "None")

(***************************************************************************)
(* routers/chat.py: start_chat and send_message                            *)
(***************************************************************************)

\* The classes models.py defines; models.<name> of any other name raises
\* AttributeError.
ModelClasses ==
    {"University", "Branch", "Semester", "Subject", "Chat", "ChatMessage",
     "MaterialDocument", "MasterAdmin", "UniversityAdmin", "Student"}

\* The materials_documents rows: s3_key and title
MaterialDocuments ==
    { [ s3_key |-> "universities/1/branches/2/subjects/3/materials/a.pdf",
        title  |-> "DBMS Unit 1" ] }

\* format_kendra_results_for_gemini
RECURSIVE FormatDocuments(_, _)
FormatDocuments(results, i) ==
    IF i > Len(results) THEN ""
    ELSE "[Document " \o IntStr(i) \o "]\n"
         \o "Title: " \o results[i].document_title \o "\n"
         \o (IF results[i].excerpt /= "" THEN "Content: " \o results[i].excerpt \o "\n" ELSE "")
         \o "\n"
         \o FormatDocuments(results, i + 1)

format_kendra_results_for_gemini(results) ==
    IF results = <<>> THEN ""
    ELSE "Reference material from study documents:\n\n" \o FormatDocuments(results, 1)

\* The title of the first of docs, or document_title when there is none
TitleOf(docs, document_title) ==
    IF docs = {} THEN document_title ELSE (CHOOSE d \in docs : TRUE).title

\* The source object of one Kendra result, its title looked up by s3_key; the
\* hits carry no page attribute, so the object has no "page" key
SourceObj(result) ==
    [ type      |-> "kendra",
      title     |-> TitleOf({d \in MaterialDocuments :
                                result.s3_key /= "" /\ d.s3_key = result.s3_key},
                            result.document_title),
      uri       |-> result.document_uri,
      relevance |-> result.relevance_score ]

\* The source objects in the reverse order of the results
KendraSources_Reversed(results) ==
    [i \in 1..Len(results) |-> SourceObj(results[Len(results) + 1 - i])]

KendraSources(results) == [i \in 1..Len(results) |-> SourceObj(results[i])]

ChatMaxResults == 5

\* The fallback block entered whatever the primary path supplied
NeedsFallback_Always(kendra_results, context_text) == TRUE

\* if not kendra_results and not context_text
NeedsFallback(kendra_results, context_text) ==
    kendra_results = <<>> /\ context_text = ""

RefusalSentence ==
    "I don't have enough information in the provided notes to fully answer this. "
    \o "Please refer to your textbook or class notes."

\* The en dash of "5-10 mark" in the source is written as a hyphen
system_prompt(subject_name) ==
    "\nYou are a helpful AI tutor for a university student.\n\nSubject: "
    \o subject_name
    \o "\n\nYou must answer ONLY using the reference material provided in the <context> section.\n"
    \o "If the context does not contain enough information to answer properly, say:\n\""
    \o RefusalSentence
    \o "\"\n\nStyle requirements:\n- Explain in a clear, exam-oriented way.\n"
    \o "- Structure answers like 5-10 mark exam answers when appropriate.\n"
    \o "- Do NOT introduce new definitions, formulas, or examples that are not supported by the context.\n"
    \o "- You may reorganize and simplify the context, but do not add external knowledge.\n"

ContextInstruction == "Now answer using ONLY the information inside <context>."
NoContextNotice == "No context was found for this question."

\* The template without a context block whatever the context text is
full_prompt_NoContext(subject_name, context_text, question) ==
    system_prompt(subject_name) \o "\n\n" \o NoContextNotice \o "\n\n"
    \o "Student question: " \o question \o "\n\n"
    \o "Explain briefly, and mention that this answer is based on general knowledge, "
    \o "not on the uploaded study material."

\* if context_text: the template with the <context> block, else the other one
full_prompt(subject_name, context_text, question) ==
    IF context_text /= ""
    THEN system_prompt(subject_name) \o "\n\n<context>\n" \o context_text \o "\n</context>\n\n"
         \o "Student question: " \o question \o "\n\n" \o ContextInstruction
    ELSE system_prompt(subject_name) \o "\n\n" \o NoContextNotice \o "\n\n"
         \o "Student question: " \o question \o "\n\n"
         \o "Explain briefly, and mention that this answer is based on general knowledge, "
         \o "not on the uploaded study material."

UserMessage(r, chat_id, question) ==
    [turn |-> r, chat_id |-> chat_id, sender |-> "USER", message |-> question,
     sources |-> None]

\* The USER message left uncommitted
CommitUserMessage_Skip(messages, r, chat_id, question) == messages

\* db.add(user_message); db.commit()
CommitUserMessage(messages, r, chat_id, question) ==
    Append(messages, UserMessage(r, chat_id, question))

default_titles == {Some("New chat"), Some("Branch Chat"), None}

TitleLimit == 40

\* title[:40].rsplit(" ", 1)[0]
RSplitHead(s) == Before(s, RFind(s, " "))

\* title being the stripped question
TruncateTitle(title) ==
    IF Len(title) > TitleLimit THEN RSplitHead(SubSeq(title, 1, TitleLimit)) ELSE title

DeriveTitle(question) == TruncateTitle(Strip(question))

\* The error text without its prefix
ErrorAnswer_Bare(msg) == msg

\* f"Error: {str(e)}"
ErrorAnswer(msg) == "Error: " \o msg

\* A detection list without the phrases of the refusal sentence
insufficient_info_phrases_Other == << "insufficient information" >>

insufficient_info_phrases ==
    << "i don't have enough information",
       "don't have enough information",
       "not enough information",
       "insufficient information",
       "please refer to your textbook",
       "refer to your textbook",
       "refer to your class notes",
       "please refer to your class notes" >>

AnyPhraseIn(answer_lower) ==
    \E i \in 1..Len(insufficient_info_phrases) :
        Contains(answer_lower, insufficient_info_phrases[i])

has_insufficient_info(answer_text) == AnyPhraseIn(Lower(answer_text))

\* The sources kept whatever the answer says
FinalSources_Keep(answer_text, sources) == sources

FinalSources(answer_text, sources) ==
    IF ~has_insufficient_info(answer_text) THEN sources ELSE <<>>

\* The list persisted as it is, an empty one too
PersistedSources_List(final_sources) == Some(final_sources)

\* sources=final_sources if final_sources else None
PersistedSources(final_sources) ==
    IF final_sources /= <<>> THEN Some(final_sources) ELSE None

\* A BOT message attached to no turn
BotMessage_Detached(r, chat_id, answer_text, final_sources) ==
    [turn |-> 0, chat_id |-> chat_id, sender |-> "BOT", message |-> answer_text,
     sources |-> PersistedSources(final_sources)]

BotMessage(r, chat_id, answer_text, final_sources) ==
    [turn |-> r, chat_id |-> chat_id, sender |-> "BOT", message |-> answer_text,
     sources |-> PersistedSources(final_sources)]

(***************************************************************************)
(* Spec: the turns of one chat, one request of send_message after another  *)
(***************************************************************************)
MaxTurns == 2
Req == 1..MaxTurns

QShort == "What is normalization?"
QLong == "What is normalization in DBMS and why do we use it for reducing redundancy?"
Questions == {QShort, QLong, " New chat "}

\* Another in-scope DOCUMENT hit, with no materials_documents row
HitInScope2 ==
    Hit("universities/1/branches/2/subjects/3/materials/h.pdf",
        "DOCUMENT", "h.pdf", GoodExcerpt, None)

\* What the search service answers to a query of the chat
Responses ==
    { [error |-> TRUE, items |-> <<>>],
      [error |-> FALSE, items |-> <<>>],
      [error |-> FALSE, items |-> <<HitOtherUniversity, HitShort>>],
      [error |-> FALSE, items |-> <<HitAnswer>>],
      [error |-> FALSE, items |-> <<HitInScope, HitOtherUniversity, HitInScope2>>] }

\* s with its letters in alternating case
RECURSIVE AltCase(_, _)
AltCase(s, up) ==
    IF Len(s) <= 1 THEN (IF up THEN UpperChar(s) ELSE LowerChar(s))
    ELSE AltCase(SubSeq(s, 1, Len(s) \div 2), up)
         \o AltCase(From(s, (Len(s) \div 2) + 1), up = ((Len(s) \div 2) % 2 = 0))

CaseVariants(s) == {s, Upper(s), Lower(s), AltCase(s, TRUE)}

\* The texts the LLM generates
AnswerTexts ==
    {" Normalization organizes the columns of a table to reduce redundancy.\n",
     "The notes give Not Enough Information about this."}
    \cup {"Sorry. " \o v : v \in CaseVariants(RefusalSentence)}

Failed404 == Attempt("404", "")

\* What the requests of one call of get_gemini_response come to, per model
GeminiScripts ==
    {<<Attempt("text", t), Failed404, Failed404>> : t \in AnswerTexts}
    \cup { <<Failed404, Attempt("no_text", ""), Attempt("text", "Third model answer.")>>,
           <<Failed404, Failed404, Failed404>>,
           <<Attempt("status", "quota exceeded"), Attempt("api_error", "bad request"),
             Attempt("transport", "timed out")>> }

IdleReq ==
    [ pc |-> "idle", chat_id |-> 0, question |-> "",
      subject |-> None, branch |-> None, subject_name |-> "",
      primary |-> "none", primary_scope |-> None,
      kendra_results |-> <<>>, context_text |-> "", sources |-> <<>>,
      fallback_ran |-> FALSE, fallback_scope |-> None, relevant_chunks |-> <<>>,
      full_prompt |-> "", gemini_raised |-> None, answer_text |-> "",
      final_sources |-> <<>>, updated_title |-> None,
      reply |-> None, error |-> None ]

HTTPException(status_code, detail) == [status_code |-> status_code, detail |-> detail]

Init ==
    /\ env \in {e \in Envs : ~e.KENDRA_DISABLE_FILTERING /\ e.GEMINI_MODEL = "gemini-1.5-flash"}
    /\ db \in {[NoDb EXCEPT !.student_branch_id = b] : b \in {None, Some(Branch.id)}}
    /\ req = [r \in Req |-> IdleReq]
    /\ ext = NoExt
    /\ kcall = NoCall

\* start_chat: the chat row with its placeholder title
StartChat(subject_id) ==
    /\ IsNone(db.chat)
    /\ \/ Truthy(subject_id)
       \/ IsNone(subject_id) /\ Truthy(db.student_branch_id)
    /\ db' = [db EXCEPT !.chat =
                Some([ id |-> 1, student_id |-> Student.id, subject_id |-> subject_id,
                       title |-> IF Truthy(subject_id) THEN Some("New chat")
                                 ELSE Some("Branch Chat") ])]
    /\ UNCHANGED <<env, req, ext, kcall>>

\* The request is over: it returned, it raised, or its process died
Ended(r) == req[r].pc \in {"done", "raised", "crashed"}

Raised(rq, status_code, detail) ==
    [rq EXCEPT !.pc = "raised", !.error = Some(HTTPException(status_code, detail))]

\* The checks of send_message before retrieval, on the request rq and the
\* chat row found for its chat_id (None when there is none of the student's)
Validated(rq, chat) ==
    IF IsNone(chat)
    THEN Raised(rq, 403, "Chat not found or access denied")
    ELSE IF Truthy(Val(chat).subject_id)
    THEN IF Subject.id /= Val(Val(chat).subject_id)
            \/ Subject.university_id /= Student.university_id
         THEN Raised(rq, 403, "You are not allowed to access this chat/subject.")
         ELSE [rq EXCEPT !.pc = "retrieve", !.subject = Some(Subject.id),
                         !.subject_name = Subject.name]
    ELSE IF ~Truthy(db.student_branch_id)
    THEN Raised(rq, 400,
                "You are not assigned to any branch. Please contact your administrator.")
    ELSE IF Branch.id /= Val(db.student_branch_id)
            \/ Branch.university_id /= Student.university_id
    THEN Raised(rq, 403, "Branch not found or does not belong to your university.")
    ELSE [rq EXCEPT !.pc = "retrieve", !.branch = Some(Branch.id),
                    !.subject_name = "Branch-wide Chat"]

\* The chat of that id, whoever its student is
ChatOfStudent_AnyOwner(chat_id) ==
    IF ~IsNone(db.chat) /\ Val(db.chat).id = chat_id THEN db.chat ELSE None

\* db.query(Chat).filter(id == chat_id, student_id == current_user.id).first()
ChatOfStudent(chat_id) ==
    IF ~IsNone(db.chat) /\ Val(db.chat).id = chat_id /\ Val(db.chat).student_id = Student.id
    THEN db.chat ELSE None

\* send_message up to the scope resolution: the chat is the student's, and its
\* subject or the student's branch is loaded.
Validate(r, chat_id, question) ==
    /\ req[r].pc = "idle"
    /\ \A q \in Req : q < r => Ended(q)
    /\ req' = [req EXCEPT ![r] =
                 Validated([req[r] EXCEPT !.chat_id = chat_id, !.question = question],
                           ChatOfStudent(chat_id))]
    /\ UNCHANGED <<env, db, ext, kcall>>

\* A retrieval made with no scope at all
ScopeOf_Neither(rq) == [subject_id |-> None, branch_id |-> None]

\* The scope of a retrieval of the request: the subject if the chat has one,
\* or else the branch
ScopeOf(rq) ==
    IF ~IsNone(rq.subject) THEN [subject_id |-> rq.subject, branch_id |-> None]
    ELSE [subject_id |-> None, branch_id |-> rq.branch]

\* The try block around query_kendra, KENDRA_ENABLED being true
\* The request after the try block, out being what query_kendra came to
AfterPrimary(rq, scope, out) ==
    IF ~IsNone(out.raised)
    THEN [rq EXCEPT !.pc = "fallback", !.primary = "raised",
                    !.primary_scope = Some(scope), !.kendra_results = <<>>]
    ELSE [rq EXCEPT !.pc = "fallback",
                    !.primary = IF out.results = <<>> THEN "empty" ELSE "nonempty",
                    !.primary_scope = Some(scope),
                    !.kendra_results = out.results,
                    !.context_text = format_kendra_results_for_gemini(out.results),
                    !.sources = KendraSources(out.results)]

PrimaryDone(r, scope, out) ==
    /\ req' = [req EXCEPT ![r] = AfterPrimary(req[r], scope, out)]
    /\ ext' = [ext EXCEPT !.kendra_queries = @ + (IF out.queried THEN 1 ELSE 0)]

PrimaryWithScope(r, scope, response) ==
    PrimaryDone(r, scope,
                query_kendra(req[r].question, Student.university_id, scope.subject_id,
                             scope.branch_id, ChatMaxResults, FALSE, response))

PrimaryRetrieval(r, response) ==
    /\ req[r].pc = "retrieve"
    /\ env.KENDRA_ENABLED
    /\ PrimaryWithScope(r, ScopeOf(req[r]), response)
    /\ UNCHANGED <<env, db, kcall>>

\* KENDRA_ENABLED being false, the try block is skipped
SkipPrimary(r) ==
    /\ req[r].pc = "retrieve"
    /\ ~env.KENDRA_ENABLED
    /\ req' = [req EXCEPT ![r] = [@ EXCEPT !.pc = "fallback", !.primary = "not_configured"]]
    /\ UNCHANGED <<env, db, ext, kcall>>

\* The end of the run of characters outside seps that starts at place a of s
RunEnd(s, a, seps) ==
    MinOr0({b \in a..Len(s) : b = Len(s) \/ Char(s, b + 1) \in seps})

\* The maximal runs of s of characters outside seps: the non-empty pieces of
\* s.split(",") for seps = {","}, s.split() for the whitespace characters
Runs(s, seps) ==
    {SubSeq(s, a, RunEnd(s, a, seps)) :
        a \in {i \in 1..Len(s) : /\ Char(s, i) \notin seps
                                 /\ (i = 1 \/ Char(s, i - 1) \in seps)}}

\* [w.strip() for w in question_lower.split() if len(w.strip()) > 2]
question_words(question_lower) ==
    {Strip(w) : w \in {v \in Runs(question_lower, {" ", "\t", "\n", "\r"}) : Len(Strip(v)) > 2}}

\* [k.strip().lower() for k in chunk.keywords.split(",") if k.strip()]
KeywordsOf(keywords) ==
    {Lower(Strip(k)) : k \in {v \in Runs(keywords, {","}) : Strip(v) /= ""}}

\* any(kw and (kw in question_lower or any(qw in kw for qw in question_words))
\*     for kw in keywords)
keyword_match(keywords, question_lower) ==
    \E kw \in KeywordsOf(keywords) :
        /\ kw /= ""
        /\ \/ Contains(question_lower, kw)
           \/ \E qw \in question_words(question_lower) : Contains(kw, qw)

\* if chunk.keywords: ... if keyword_match
ChunkMatches(chunk, question_lower) ==
    /\ ~IsNone(chunk.keywords) /\ Val(chunk.keywords) /= ""
    /\ keyword_match(Val(chunk.keywords), question_lower)

MaxKeywordMatches == 5
FirstFewChunks == 3

\* The loop over chunks: append a match and break once five are collected
RECURSIVE KeywordTier(_, _, _)
KeywordTier(chunks, relevant_chunks, question_lower) ==
    IF chunks = <<>> THEN relevant_chunks
    ELSE IF ~ChunkMatches(Head(chunks), question_lower)
    THEN KeywordTier(Tail(chunks), relevant_chunks, question_lower)
    ELSE IF Len(relevant_chunks) + 1 >= MaxKeywordMatches
    THEN Append(relevant_chunks, Head(chunks))
    ELSE KeywordTier(Tail(chunks), Append(relevant_chunks, Head(chunks)), question_lower)

\* if not relevant_chunks and chunks: relevant_chunks = chunks[:3]
OrFirstFew(relevant_chunks, chunks) ==
    IF relevant_chunks = <<>> /\ chunks /= <<>>
    THEN SubSeq(chunks, 1, IF Len(chunks) < FirstFewChunks THEN Len(chunks) ELSE FirstFewChunks)
    ELSE relevant_chunks

RelevantChunks(chunks, question) ==
    OrFirstFew(KeywordTier(chunks, <<>>, Lower(question)), chunks)

\* The lines a chunk adds to the context text
ChunkBlock(chunk) ==
    "Title: " \o chunk.title \o "\n"
    \o (IF Truthy(chunk.page_number) THEN "Page: " \o IntStr(Val(chunk.page_number)) \o "\n" ELSE "")
    \o (IF ~IsNone(chunk.heading) /\ Val(chunk.heading) /= ""
        THEN "Heading: " \o Val(chunk.heading) \o "\n" ELSE "")
    \o "Content: " \o chunk.text \o "\n\n"

RECURSIVE ChunkBlocks(_)
ChunkBlocks(relevant_chunks) ==
    IF relevant_chunks = <<>> THEN ""
    ELSE ChunkBlock(Head(relevant_chunks)) \o ChunkBlocks(Tail(relevant_chunks))

\* context_text of the fallback block
ChunkContext(relevant_chunks) ==
    IF relevant_chunks = <<>> THEN ""
    ELSE "Reference material:\n" \o ChunkBlocks(relevant_chunks)

\* The sources of the fallback block
ChunkSources(relevant_chunks) ==
    [i \in 1..Len(relevant_chunks) |->
        [type |-> "snippet", title |-> relevant_chunks[i].title,
         page |-> relevant_chunks[i].page_number]]

\* A row of the chunk table joined to its document
Chunk(id, keywords, page_number, heading) ==
    [ id |-> id, keywords |-> keywords, title |-> "DBMS Unit 1",
      page_number |-> page_number, heading |-> heading,
      text |-> "Chunk " \o IntStr(id) \o " of the unit." ]

\* The rows the chunk queries of the fallback block are about, in storage
\* order: those of the documents of the subject, and those of the branch
SubjectChunks ==
    << Chunk(1, Some("Normalization, 1NF"), Some(4), Some("Normal forms")),
       Chunk(2, Some(""), None, None),
       Chunk(3, Some("whatever"), Some(0), Some("")),
       Chunk(4, Some(" , "), None, None),
       Chunk(5, Some("IS"), Some(7), None),
       Chunk(6, Some("SQL, joins"), None, None),
       Chunk(7, Some("functional dependency,normalization forms"), None, None),
       Chunk(8, Some("chatbots ,what"), None, None),
       Chunk(9, Some("notes on what is normalization? explained"), None, None) >>

BranchChunks ==
    << Chunk(11, None, None, None), Chunk(12, Some(""), Some(2), None),
       Chunk(13, Some("SQL"), None, Some("Joins")), Chunk(14, Some(" , "), None, None) >>

ChunksOf(scope) == IF ~IsNone(scope.subject_id) THEN SubjectChunks ELSE BranchChunks

\* The request after the fallback block found chunks for it
WithChunks(rq, relevant_chunks) ==
    [rq EXCEPT !.pc = "prompt", !.fallback_ran = TRUE, !.fallback_scope = Some(ScopeOf(rq)),
               !.relevant_chunks = relevant_chunks,
               !.context_text = ChunkContext(relevant_chunks),
               !.sources = rq.sources \o ChunkSources(relevant_chunks)]

\* The fallback block: the chunks of the scope are queried through
\* models.MaterialChunk, which models.py does not define.
FallbackLocal(r) ==
    /\ req[r].pc = "fallback"
    /\ NeedsFallback(req[r].kendra_results, req[r].context_text)
    /\ req' = [req EXCEPT ![r] =
          IF "MaterialChunk" \notin ModelClasses
          THEN [@ EXCEPT !.pc = "raised", !.fallback_ran = TRUE,
                    !.fallback_scope = Some(ScopeOf(req[r])),
                    !.error = Some(HTTPException(500,
                        "AttributeError: module 'app.models' has no attribute 'MaterialChunk'"))]
          ELSE WithChunks(req[r], RelevantChunks(ChunksOf(ScopeOf(req[r])), req[r].question))]
    /\ UNCHANGED <<env, db, ext, kcall>>

\* The fallback block is not entered
SkipFallback(r) ==
    /\ req[r].pc = "fallback"
    /\ ~NeedsFallback(req[r].kendra_results, req[r].context_text)
    /\ req' = [req EXCEPT ![r] = [@ EXCEPT !.pc = "prompt"]]
    /\ UNCHANGED <<env, db, ext, kcall>>

\* The prompt is built and the USER message committed
PersistUser(r) ==
    /\ req[r].pc = "prompt"
    /\ req' = [req EXCEPT ![r] =
          [@ EXCEPT !.pc = "title",
               !.full_prompt = full_prompt(req[r].subject_name, req[r].context_text,
                                          req[r].question)]]
    /\ db' = [db EXCEPT !.messages =
                CommitUserMessage(@, r, req[r].chat_id, req[r].question)]
    /\ UNCHANGED <<env, ext, kcall>>

\* Auto-title: a chat whose title is a placeholder gets the derived title
AutoTitle(r) ==
    /\ req[r].pc = "title"
    /\ IF Val(db.chat).title \in default_titles
       THEN /\ db' = [db EXCEPT !.chat =
                        Some([Val(@) EXCEPT !.title = Some(DeriveTitle(req[r].question))])]
            /\ req' = [req EXCEPT ![r] =
                  [@ EXCEPT !.pc = "llm",
                       !.updated_title = Some(DeriveTitle(req[r].question))]]
       ELSE /\ req' = [req EXCEPT ![r] = [@ EXCEPT !.pc = "llm"]]
            /\ UNCHANGED db
    /\ UNCHANGED <<env, ext, kcall>>

\* await get_gemini_response(full_prompt): the call is issued
CallGemini(r) ==
    /\ req[r].pc = "llm"
    /\ req' = [req EXCEPT ![r] = [@ EXCEPT !.pc = "llm_wait"]]
    /\ ext' = [ext EXCEPT !.gemini_calls = @ + 1]
    /\ UNCHANGED <<env, db, kcall>>

\* The call returns the text or raises; a raise becomes the answer
\* try: answer_text = await ...; except Exception as e: answer_text = "Error: ..."
AfterGemini(rq, out) ==
    IF ~IsNone(out.raised)
    THEN [rq EXCEPT !.pc = "post", !.gemini_raised = out.raised,
                    !.answer_text = ErrorAnswer(Val(out.raised))]
    ELSE [rq EXCEPT !.pc = "post", !.answer_text = out.text]

GeminiReturns(r, script) ==
    /\ req[r].pc = "llm_wait"
    /\ req' = [req EXCEPT ![r] =
                 AfterGemini(req[r], get_gemini_response(req[r].full_prompt, script))]
    /\ UNCHANGED <<env, db, ext, kcall>>

\* Sources are cleared on an insufficient answer, the BOT message is committed
\* and the reply returned
PersistBotWith(r, final_sources) ==
    /\ db' = [db EXCEPT !.messages =
                 Append(@, BotMessage(r, req[r].chat_id, req[r].answer_text,
                                      final_sources))]
    /\ req' = [req EXCEPT ![r] =
                 [req[r] EXCEPT !.pc = "done", !.final_sources = final_sources,
                      !.reply = Some([ answer |-> req[r].answer_text,
                                       sources |-> final_sources,
                                       chat_title |-> req[r].updated_title ])]]

PersistBot(r) ==
    /\ req[r].pc = "post"
    /\ PersistBotWith(r, FinalSources(req[r].answer_text, req[r].sources))
    /\ UNCHANGED <<env, ext, kcall>>

Next ==
    \/ \E subject_id \in {None, Some(Subject.id)} : StartChat(subject_id)
    \/ \E r \in Req, chat_id \in {1, 9}, question \in Questions :
          Validate(r, chat_id, question)
    \/ \E r \in Req, response \in Responses : PrimaryRetrieval(r, response)
    \/ \E r \in Req : SkipPrimary(r)
    \/ \E r \in Req : FallbackLocal(r)
    \/ \E r \in Req : SkipFallback(r)
    \/ \E r \in Req : PersistUser(r)
    \/ \E r \in Req : AutoTitle(r)
    \/ \E r \in Req : CallGemini(r)
    \/ \E r \in Req, script \in GeminiScripts : GeminiReturns(r, script)
    \/ \E r \in Req : PersistBot(r)

Spec == Init /\ [][Next]_vars

(***************************************************************************)
(* Properties of the chat turn                                             *)
(***************************************************************************)
\* The request passed the ownership and scope validation
PassedValidation(r) == ~IsNone(req[r].subject) \/ ~IsNone(req[r].branch)

\* The places in chat_messages of the turn's messages of a sender
MessagesOf(r, sender) ==
    {i \in 1..Len(db.messages) :
        db.messages[i].turn = r /\ db.messages[i].sender = sender}

\* The LLM call of the turn has been issued
LlmCalled(r) == req[r].pc \in {"llm_wait", "post", "done"}

\* The turn is past the fallback decision
PastFallback(r) ==
    \/ req[r].pc \in {"prompt", "title", "llm", "llm_wait", "post", "done"}
    \/ req[r].pc = "raised" /\ PassedValidation(r)

\* C2: once a request has passed validation it never ends with an error raised
\* to the caller, and a turn that returned has persisted exactly one USER and
\* exactly one BOT message.
C2_TurnNeverAborts ==
    \A r \in Req :
        PassedValidation(r) =>
            /\ req[r].pc /= "raised"
            /\ req[r].pc = "done" =>
                  /\ Cardinality(MessagesOf(r, "USER")) = 1
                  /\ Cardinality(MessagesOf(r, "BOT")) = 1

\* C3: in every state in which the LLM has been called for a turn, whether the
\* call is pending, succeeded or failed, the turn's USER message is stored, and
\* it precedes the turn's BOT message.
C3_UserBeforeLlm ==
    \A r \in Req :
        LlmCalled(r) =>
            /\ \E i \in MessagesOf(r, "USER") :
                  /\ db.messages[i].message = req[r].question
                  /\ db.messages[i].chat_id = req[r].chat_id
            /\ \A i \in MessagesOf(r, "USER"), j \in MessagesOf(r, "BOT") : i < j

\* The LLM call of a turn failed and the turn's USER message is stored
C3_Witness ==
    \E r \in Req :
        /\ req[r].pc = "post"
        /\ ~IsNone(req[r].gemini_raised)
        /\ MessagesOf(r, "USER") /= {}

\* C4: whenever get_gemini_response raised (always so without an API key) the
\* request does not raise, its answer is "Error: " followed by the error text,
\* and once it returned a BOT message with exactly that text is persisted and
\* the reply carries it.
C4_GenerationFailureDegrades ==
    \A r \in Req :
        /\ (env.GEMINI_API_KEY = "" /\ req[r].pc \in {"post", "done"})
              => ~IsNone(req[r].gemini_raised)
        /\ ~IsNone(req[r].gemini_raised) =>
              /\ req[r].pc \in {"post", "done"}
              /\ IsNone(req[r].error)
              /\ req[r].answer_text = "Error: " \o Val(req[r].gemini_raised)
              /\ req[r].pc = "done" =>
                    /\ \E i \in MessagesOf(r, "BOT") :
                          db.messages[i].message = "Error: " \o Val(req[r].gemini_raised)
                    /\ Val(req[r].reply).answer = "Error: " \o Val(req[r].gemini_raised)

\* A turn whose LLM call raised has returned its reply
C4_Witness ==
    \E r \in Req :
        /\ req[r].pc = "done"
        /\ ~IsNone(req[r].gemini_raised)
        /\ ~IsNone(req[r].reply)
        /\ MessagesOf(r, "BOT") /= {}

C6_ScenarioB ==
    \A r \in Req :
        (~env.KENDRA_ENABLED /\ PassedValidation(r) /\ Ended(r)) =>
            /\ ext.kendra_queries = 0
            /\ req[r].fallback_ran
            /\ IsNone(req[r].error)
            /\ req[r].pc = "done"
            /\ req[r].context_text = ""
            /\ Contains(req[r].full_prompt, NoContextNotice)
            /\ Val(req[r].reply).sources = <<>>

\* C7: a turn that returned has an empty final source list if its lower-cased
\* answer contains one of the insufficiency phrases, and the candidate list
\* unchanged otherwise; the reply carries the final list.
C7_PostProcessing ==
    \A r \in Req :
        req[r].pc = "done" =>
            /\ req[r].final_sources =
                  IF AnyPhraseIn(Lower(req[r].answer_text))
                  THEN <<>> ELSE req[r].sources
            /\ Val(req[r].reply).sources = req[r].final_sources

\* One turn's sources were cleared on an insufficiency phrase in mixed case,
\* another turn's sources were kept
C7_Witness ==
    \E r, q \in Req :
        /\ req[r].pc = "done" /\ req[r].sources /= <<>>
        /\ Contains(req[r].answer_text, "Not Enough Information")
        /\ req[r].final_sources = <<>>
        /\ req[q].pc = "done" /\ Len(req[q].sources) = 2
        /\ req[q].final_sources = req[q].sources

\* C8: the BOT message of a turn that returned has sources null exactly when
\* the final source list is empty, and otherwise the list of the reply; an
\* answer with an insufficiency phrase has it null.
C8_PersistedSources ==
    \A r \in Req :
        req[r].pc = "done" =>
            /\ MessagesOf(r, "BOT") /= {}
            /\ \A i \in MessagesOf(r, "BOT") :
                  /\ IsNone(db.messages[i].sources) <=> req[r].final_sources = <<>>
                  /\ req[r].final_sources /= <<>> =>
                        db.messages[i].sources = Some(Val(req[r].reply).sources)
                  /\ has_insufficient_info(req[r].answer_text) =>
                        IsNone(db.messages[i].sources)

\* Excerpts were retrieved and assembled into the context, the answer has an
\* insufficiency phrase and the BOT message's sources are null
C8_Witness ==
    \E r \in Req :
        /\ req[r].pc = "done"
        /\ Len(req[r].kendra_results) = 2 /\ req[r].context_text /= ""
        /\ has_insufficient_info(req[r].answer_text)
        /\ \E i \in MessagesOf(r, "BOT") : IsNone(db.messages[i].sources)

\* C9: the prompt of every turn carries the refusal sentence, and a turn that
\* returned an answer containing that sentence in any letter case has no
\* sources, in the reply and in the BOT message.
C9_RefusalSentenceShared ==
    \A r \in Req :
        /\ req[r].pc \in {"title", "llm", "llm_wait", "post", "done"} =>
              Contains(req[r].full_prompt, RefusalSentence)
        /\ (req[r].pc = "done"
              /\ Contains(Lower(req[r].answer_text), Lower(RefusalSentence))) =>
              /\ req[r].final_sources = <<>>
              /\ Val(req[r].reply).sources = <<>>
              /\ \A i \in MessagesOf(r, "BOT") : IsNone(db.messages[i].sources)

\* The answer had the refusal sentence in upper case and sources were retrieved
C9_Witness ==
    \E r \in Req :
        /\ req[r].pc = "done"
        /\ Contains(req[r].answer_text, Upper(RefusalSentence))
        /\ req[r].sources /= <<>>
        /\ req[r].final_sources = <<>>

\* C10: at most one turn of the chat writes the title: a turn that comes after
\* a turn that wrote it writes none and returns a null chat_title.
C10_TitleOnce ==
    \A r, q \in Req :
        (q < r /\ ~IsNone(req[q].updated_title)) => IsNone(req[r].updated_title)


(***************************************************************************)
(* SpecConc: two requests of send_message on one chat at the same time.    *)
(* Each request has its own database session.  The requests served by one  *)
(* event loop (UVICORN_WORKERS = 1) interleave only where the handler      *)
(* awaits, at the LLM call; the requests served by separate worker         *)
(* processes interleave at every database statement.                       *)
(***************************************************************************)
ConcQuestions == {QShort, QLong, " New chat "}

ConcResponses ==
    { [error |-> TRUE, items |-> <<>>],
      [error |-> FALSE, items |-> <<HitInScope>>] }

ConcScripts ==
    { <<Attempt("text", "Third normal form removes transitive dependencies."), Failed404, Failed404>>,
      <<Failed404, Failed404, Failed404>> }

InitConc ==
    /\ env \in {[ KENDRA_ENABLED |-> k, KENDRA_DISABLE_FILTERING |-> FALSE,
                  GEMINI_API_KEY |-> "key", GEMINI_MODEL |-> "gemini-1.5-flash",
                  UVICORN_WORKERS |-> w ] : k \in BOOLEAN, w \in {1, 2}}
    /\ db = [NoDb EXCEPT !.student_branch_id = Some(Branch.id)]
    /\ req = [r \in Req |-> IdleReq]
    /\ ext = NoExt
    /\ kcall = NoCall

\* The handler of request r is not running: it has not started, it is
\* suspended at its await, or it has ended
Suspended(r) == req[r].pc \in {"idle", "llm_wait", "done", "raised"}

\* Request r can take its next step: with one event loop no other handler is
\* between two awaits
CanRun(r) ==
    env.UVICORN_WORKERS > 1 \/ \A q \in Req \ {r} : Suspended(q)

ConcValidate(r, question) ==
    /\ req[r].pc = "idle"
    /\ CanRun(r)
    /\ ~IsNone(db.chat)
    /\ req' = [req EXCEPT ![r] =
                 Validated([req[r] EXCEPT !.chat_id = 1, !.question = question],
                           ChatOfStudent(1))]
    /\ UNCHANGED <<env, db, ext, kcall>>

ConcPrimaryRetrieval(r, response) == CanRun(r) /\ PrimaryRetrieval(r, response)
ConcSkipPrimary(r) == CanRun(r) /\ SkipPrimary(r)
ConcFallbackLocal(r) == CanRun(r) /\ FallbackLocal(r)
ConcSkipFallback(r) == CanRun(r) /\ SkipFallback(r)
ConcPersistUser(r) == CanRun(r) /\ PersistUser(r)

\* if chat.title in default_titles: the title is read from the database, the
\* chat row being expired by the commit of the USER message
ReadTitle(r) ==
    /\ req[r].pc = "title"
    /\ CanRun(r)
    /\ req' = [req EXCEPT ![r] =
          [req[r] EXCEPT !.pc = IF Val(db.chat).title \in default_titles
                                THEN "title_write" ELSE "llm"]]
    /\ UNCHANGED <<env, db, ext, kcall>>

\* chat.title = title; updated_title = title; db.commit()
WriteTitle(r) ==
    /\ req[r].pc = "title_write"
    /\ CanRun(r)
    /\ db' = [db EXCEPT !.chat =
                Some([Val(db.chat) EXCEPT !.title = Some(DeriveTitle(req[r].question))])]
    /\ req' = [req EXCEPT ![r] =
          [req[r] EXCEPT !.pc = "llm",
                         !.updated_title = Some(DeriveTitle(req[r].question))]]
    /\ UNCHANGED <<env, ext, kcall>>

ConcCallGemini(r) == CanRun(r) /\ CallGemini(r)

\* The awaited call completes and the handler is resumed
ConcGeminiReturns(r, script) == CanRun(r) /\ GeminiReturns(r, script)

ConcPersistBot(r) == CanRun(r) /\ PersistBot(r)

NextConc ==
    \/ StartChat(Some(Subject.id))
    \/ \E r \in Req, question \in ConcQuestions : ConcValidate(r, question)
    \/ \E r \in Req, response \in ConcResponses : ConcPrimaryRetrieval(r, response)
    \/ \E r \in Req : ConcSkipPrimary(r)
    \/ \E r \in Req : ConcFallbackLocal(r)
    \/ \E r \in Req : ConcSkipFallback(r)
    \/ \E r \in Req : ConcPersistUser(r)
    \/ \E r \in Req : ReadTitle(r)
    \/ \E r \in Req : WriteTitle(r)
    \/ \E r \in Req : ConcCallGemini(r)
    \/ \E r \in Req, script \in ConcScripts : ConcGeminiReturns(r, script)
    \/ \E r \in Req : ConcPersistBot(r)

SpecConc == InitConc /\ [][NextConc]_vars

\* C11: of two requests on one chat running at the same time at most one
\* writes the chat title.
C11_TitleOnceConcurrent ==
    \A r, q \in Req :
        (r /= q /\ ~IsNone(req[q].updated_title)) => IsNone(req[r].updated_title)


(***************************************************************************)
(* SpecTitle: the title derivation of send_message on question texts drawn *)
(* from a bounded set                                                      *)
(***************************************************************************)
Word9 == "Normalize"
Word39 == "Normalization-and-functional-dependency"
Word40 == "Normalization-and-functional-dependency?"
Word45 == "https://example.edu/dbms/unit-1/normalization"

\* Leading whitespace, a first word, a separator, the rest, trailing whitespace
TitleQuestions ==
    { pre \o a \o sep \o b \o post :
        pre \in {"", " "},
        a \in {Word9, Word39, Word40, Word45},
        sep \in {" ", "\t", "  "},
        b \in {"", "tables", "the tables of a relational database schema"},
        post \in {"", "\n"} }

InitTitle ==
    /\ env \in {e \in Envs : e.KENDRA_ENABLED /\ ~e.KENDRA_DISABLE_FILTERING
                             /\ e.GEMINI_API_KEY = "key"
                             /\ e.GEMINI_MODEL = "gemini-1.5-flash"}
    /\ db = NoDb
    /\ req = <<>>
    /\ ext = NoExt
    /\ kcall \in {[args |-> Some([question |-> q]), out |-> None] : q \in TitleQuestions}

\* title = question.strip(); if len(title) > 40: title = title[:40].rsplit(" ", 1)[0]
TitleCall ==
    /\ ~IsNone(kcall.args) /\ IsNone(kcall.out)
    /\ kcall' = [kcall EXCEPT !.out = Some(DeriveTitle(Val(kcall.args).question))]
    /\ UNCHANGED <<env, db, req, ext>>

NextTitle == TitleCall

SpecTitle == InitTitle /\ [][NextTitle]_vars

\* The prefix of length k of t does not end in the middle of a word
NotMidWord(t, k) == k = 0 \/ k = Len(t) \/ IsSpace(Char(t, k)) \/ IsSpace(Char(t, k + 1))

\* The last character of a word of t is at place k
WordEndsAt(t, k) == ~IsSpace(Char(t, k)) /\ (k = Len(t) \/ IsSpace(Char(t, k + 1)))

\* title is the title the derivation is to give for the trimmed question t
IsDerivedTitle(t, title) ==
    /\ StartsWith(t, title)
    /\ Len(title) <= 40
    /\ Len(t) <= 40 => title = t
    /\ Len(t) > 40 =>
          /\ NotMidWord(t, Len(title))
          /\ \A k \in (Len(title) + 1)..40 : ~WordEndsAt(t, k)

\* C12: the derived title is a prefix of the trimmed question of at most 40
\* characters: the trimmed question itself when that has at most 40 characters,
\* and otherwise its longest prefix of at most 40 characters that ends at a
\* whitespace boundary, never in the middle of a word.
C12_TitleDerivation ==
    ~IsNone(kcall.out) =>
        IsDerivedTitle(Strip(Val(kcall.args).question), Val(kcall.out))


(***************************************************************************)
(* SpecCrash: the turns of one chat, the server process being free to die  *)
(* at any point of a request.  What was committed stays; the request's     *)
(* uncommitted work and its reply are lost.                                *)
(***************************************************************************)
Crash(r) ==
    /\ req[r].pc \in {"retrieve", "fallback", "prompt", "title", "llm", "llm_wait", "post"}
    /\ req' = [req EXCEPT ![r] = [req[r] EXCEPT !.pc = "crashed"]]
    /\ UNCHANGED <<env, db, ext, kcall>>

NextCrash ==
    \/ Next
    \/ \E r \in Req : Crash(r)

SpecCrash == Init /\ [][NextCrash]_vars

\* C13: every persisted BOT message belongs to a turn whose USER message was
\* persisted earlier, and the chat holds at least as many USER messages as BOT
\* messages, also after a crash between the two commits.
C13_MessagePairing ==
    /\ \A j \in 1..Len(db.messages) :
          db.messages[j].sender = "BOT" =>
              \E i \in 1..(j - 1) :
                  /\ db.messages[i].sender = "USER"
                  /\ db.messages[i].turn = db.messages[j].turn
                  /\ db.messages[i].chat_id = db.messages[j].chat_id
    /\ Cardinality({i \in 1..Len(db.messages) : db.messages[i].sender = "USER"})
          >= Cardinality({j \in 1..Len(db.messages) : db.messages[j].sender = "BOT"})

\* A request died between its two commits: its USER message is stored with no
\* BOT message, and a later turn of the chat has both
C13_Witness ==
    \E r, q \in Req :
        /\ req[r].pc = "crashed"
        /\ MessagesOf(r, "USER") /= {} /\ MessagesOf(r, "BOT") = {}
        /\ r < q /\ req[q].pc = "done"
        /\ MessagesOf(q, "USER") /= {} /\ MessagesOf(q, "BOT") /= {}


(***************************************************************************)
(* Context and sources of a turn                                           *)
(***************************************************************************)
\* The prompt of the turn has been built
PromptBuilt(r) == req[r].pc \in {"title", "llm", "llm_wait", "post", "done"}

\* The text written into the context for the i-th included result
BlockOf(i, result) ==
    "[Document " \o IntStr(i) \o "]\nTitle: " \o result.document_title
    \o "\nContent: " \o result.excerpt \o "\n\n"

\* The place in the context text of the i-th included result, 0 when absent
BlockPlace(rq, i) == Find(rq.context_text, BlockOf(i, rq.kendra_results[i]))

KendraReturned == ~IsNone(kcall.out) /\ IsNone(Val(kcall.out).raised)

\* The places in the raw hit list of the hits the call of arguments a accepts
AcceptablePlaces(a) ==
    {i \in 1..Len(a.response.items) :
        Accepts(a.response.items[i], "what is normalization", a.university_id,
                a.subject_id, a.branch_id, a.disable_filtering)}

\* results are the first max_results acceptable hits of a, in their order
IsSelection(a, results) ==
    /\ Len(results) <= a.max_results
    /\ Len(results) <= Cardinality(AcceptablePlaces(a))
    /\ Len(results) = a.max_results \/ Len(results) = Cardinality(AcceptablePlaces(a))
    /\ \A n \in 1..Len(results) :
          results[n] = KendraResult(a.response.items[NthOf(AcceptablePlaces(a), n)])

\* C15: the returned list is the first max_results acceptable hits of the raw
\* list in the service's order, never more than max_results of them.
C15_ResultSelection ==
    KendraReturned => IsSelection(Val(kcall.args), Val(kcall.out).results)


(***************************************************************************)
(* SpecQuality: one call of _is_quality_result on a result drawn from a    *)
(* bounded set of excerpts and relevance scores                            *)
(***************************************************************************)
Excerpt29 == "one two three four five sixes"
Excerpt30 == "one two three four five sixess"
FourWords == "Normalization reduces relational redundancy"
MixedSpaces == "one\ttwo\nthree four  five sixess."
Alnum8of30 == "a b c d e f g h --------------"
Alnum9of30 == "a b c d e f g h i ------------"
FiveShortWords == "a bb cc dd ee"

QualityExcerpts ==
    { pre \o body \o post :
        pre \in {"", " ", "\n\t"},
        body \in {GoodExcerpt, Excerpt29, Excerpt30, FourWords, MixedSpaces, Alnum8of30,
                  Alnum9of30, "", ShortExcerpt, FiveShortWords},
        post \in {"", "  "} }

InitQuality ==
    /\ env \in {e \in Envs : e.KENDRA_ENABLED /\ ~e.KENDRA_DISABLE_FILTERING
                             /\ e.GEMINI_API_KEY = "key"
                             /\ e.GEMINI_MODEL = "gemini-1.5-flash"}
    /\ db = NoDb
    /\ req = <<>>
    /\ ext = NoExt
    /\ kcall \in {[args |-> Some([result |-> [excerpt |-> e, relevance_score |-> s]]),
                   out |-> None] :
                     e \in QualityExcerpts, s \in {"LOW", "MEDIUM", "HIGH"}}

QualityCall ==
    /\ ~IsNone(kcall.args) /\ IsNone(kcall.out)
    /\ kcall' = [kcall EXCEPT !.out =
                    Some(_is_quality_result(Val(kcall.args).result, "what is normalization"))]
    /\ UNCHANGED <<env, db, req, ext>>

NextQuality == QualityCall

SpecQuality == InitQuality /\ [][NextQuality]_vars

\* The trimmed excerpt t has the length, the words and the alphanumeric share
\* asked for
IsSubstantial(t) ==
    /\ Len(t) >= 30
    /\ WordCount(t) >= 5
    /\ 10 * AlnumCount(t) >= 3 * Len(t)

InScope(key, a) ==
    /\ Contains(key, "universities/" \o IntStr(a.university_id) \o "/")
    /\ ~IsNone(a.subject_id) =>
          Contains(key, "subjects/" \o IntStr(Val(a.subject_id)) \o "/")
    /\ (IsNone(a.subject_id) /\ ~IsNone(a.branch_id)) =>
          Contains(key, "branches/" \o IntStr(Val(a.branch_id)) \o "/")

\* result is one of results
InResults(result, results) == \E n \in 1..Len(results) : results[n] = result

\* What C17 asks of the hit item of the call of arguments a that returned results
BypassHolds(item, a, results) ==
    /\ (/\ item.Type = "ANSWER"
        /\ InScope(Normalize(item.DocumentURI), a)
        /\ Strip(ExcerptText(item)) /= "")
          => (InResults(KendraResult(item), results) \/ Len(results) >= a.max_results)
    /\ (/\ item.Type = "DOCUMENT"
        /\ ~IsSubstantial(Strip(ExcerptText(item))))
          => ~InResults(KendraResult(item), results)

\* C17: with filtering on, a scope-matching ANSWER hit with non-empty text is
\* returned whatever its length, words and alphanumeric share, unless the
\* quota was filled; a DOCUMENT hit is returned only if its text passes the
\* quality filter.
C17_AnswerBypass ==
    KendraReturnedFiltered =>
        \A i \in 1..Len(Val(kcall.args).response.items) :
            BypassHolds(Val(kcall.args).response.items[i], Val(kcall.args),
                        Val(kcall.out).results)

\* A DOCUMENT hit and an ANSWER hit with the same short text: the ANSWER hit
\* alone was returned
C17_Witness ==
    /\ KendraReturnedFiltered
    /\ Val(kcall.args).response.items = <<HitShort, HitAnswer>>
    /\ ExcerptText(HitShort) = ExcerptText(HitAnswer)
    /\ Val(kcall.out).results = <<KendraResult(HitAnswer)>>


\* The call was made with neither subject_id nor branch_id and is over
CalledWithoutScope ==
    /\ ~IsNone(kcall.out)
    /\ IsNone(Val(kcall.args).subject_id)
    /\ IsNone(Val(kcall.args).branch_id)

\* C18 as stated: a call with neither subject_id nor branch_id raises the
\* invalid-scope error, and no query goes out.
C18_InvalidScopeRaised ==
    CalledWithoutScope =>
        /\ Val(kcall.out).raised = Some("Either subject_id or branch_id must be provided")
        /\ ~Val(kcall.out).queried

\* C18 amended: a call with neither subject_id nor branch_id raises before any
\* query goes out: the invalid-scope error when Kendra is configured, the
\* not-configured error when it is not.
C18_ScopeValidation ==
    CalledWithoutScope =>
        /\ ~IsNone(Val(kcall.out).raised)
        /\ ~Val(kcall.out).queried
        /\ Val(kcall.out).results = <<>>
        /\ env.KENDRA_ENABLED =>
              Val(kcall.out).raised = Some("Either subject_id or branch_id must be provided")
        /\ ~env.KENDRA_ENABLED =>
              Val(kcall.out).raised =
                 Some("Kendra is not configured. Please check your environment variables.")

\* Kendra being configured, a call without scope on a response with hits
\* raised the invalid-scope error
C18_Witness ==
    /\ CalledWithoutScope
    /\ env.KENDRA_ENABLED
    /\ Val(kcall.args).response.items /= <<>>
    /\ ~Val(kcall.args).response.error
    /\ Val(kcall.out).raised = Some("Either subject_id or branch_id must be provided")


(***************************************************************************)
(* The scope of the retrievals of a turn                                   *)
(***************************************************************************)
\* Exactly one of the subject and the branch is set in scope
ExactlyOne(scope) == IsNone(scope.subject_id) /= IsNone(scope.branch_id)

\* scope is the scope of the chat of request rq: its subject, or else the
\* branch of the student
IsChatScope(rq, scope) ==
    IF Truthy(Val(db.chat).subject_id)
    THEN scope = [subject_id |-> Val(db.chat).subject_id, branch_id |-> None]
    ELSE scope = [subject_id |-> None, branch_id |-> db.student_branch_id]

\* The primary call of request r, about to be made, does not raise the
\* invalid-scope error
NoInvalidScope(r) ==
    \A response \in Responses :
        query_kendra(req[r].question, Student.university_id,
                     ScopeOf(req[r]).subject_id, ScopeOf(req[r]).branch_id,
                     ChatMaxResults, FALSE, response).raised
            /= Some("Either subject_id or branch_id must be provided")

\* C19: every retrieval of a validated request, the primary call and the
\* fallback query, is made with exactly one of subject and branch set, the one
\* of the chat, and the primary call never raises the invalid-scope error.
C19_ExactlyOneScope ==
    \A r \in Req :
        /\ PassedValidation(r) => IsNone(req[r].subject) /= IsNone(req[r].branch)
        /\ req[r].pc = "retrieve" => (ExactlyOne(ScopeOf(req[r])) /\ NoInvalidScope(r))
        /\ ~IsNone(req[r].primary_scope) =>
              /\ ExactlyOne(Val(req[r].primary_scope))
              /\ IsChatScope(req[r], Val(req[r].primary_scope))
        /\ ~IsNone(req[r].fallback_scope) =>
              /\ ExactlyOne(Val(req[r].fallback_scope))
              /\ IsChatScope(req[r], Val(req[r].fallback_scope))

\* One turn of a branch chat made its primary call and its fallback query on
\* the branch alone
C19_Witness ==
    \E r \in Req :
        /\ req[r].fallback_ran
        /\ req[r].primary_scope = Some([subject_id |-> None, branch_id |-> Some(Branch.id)])
        /\ req[r].fallback_scope = req[r].primary_scope


(***************************************************************************)
(* The normalization of one DocumentURI                                    *)
(***************************************************************************)
\* Object keys: plain ones, and ones with the characters "#", "?" and ";",
\* which S3 allows in a key
UriKeys ==
    {"universities/1/subjects/1/notes.pdf",
     "universities/1/branches/2/unit 1.pdf",
     "universities/1/subjects/1/unit#1.pdf",
     "universities/1/subjects/1/what?.pdf",
     "universities/1/subjects/1/v;2/notes.pdf",
     "universities/1/subjects/1/notes;v2.pdf",
     "universities/10/subjects/1/a.s3.b/notes.pdf",
     "universities/1/subjects/1/",
     "notes.pdf",
     "k"}

\* What precedes the key in the four shapes of a DocumentURI
UriHeads ==
    [s3 |-> "s3://studytap-bucket/",
     https |-> "https://studytap-bucket.s3.amazonaws.com/",
     https_region |-> "https://studytap-bucket.s3.ap-south-1.amazonaws.com/",
     bare |-> ""]

ShapedUris ==
    {[shape |-> h, key |-> k, document_uri |-> UriHeads[h] \o k] :
        h \in DOMAIN UriHeads, k \in UriKeys}

\* Strings of no recognized prefix, and s3:// and https:// strings that are
\* not of the shapes: no key, or a netloc with one bracket
OtherUris ==
    {[shape |-> "other", key |-> "", document_uri |-> u] :
        u \in {"", "s3:/", "s3://studytap-bucket", "s3:studytap-bucket/universities/1/a.pdf",
               "S3://studytap-bucket/universities/1/a.pdf",
               "http://studytap-bucket.s3.amazonaws.com/universities/1/a.pdf",
               "HTTPS://studytap-bucket.s3.amazonaws.com/universities/1/a.pdf",
               "file:///universities/1/a.pdf",
               "https://studytap-bucket.s3.amazonaws.com",
               "https://[studytap-bucket",
               "https://[studytap-bucket/universities/1/a.pdf",
               "https://studytap-bucket].s3.ap-south-1.example.org/universities/1/a.pdf",
               "https://[studytap-bucket.s3.amazonaws.com/universities/1/a.pdf"}}

InitNormalize ==
    /\ env \in {e \in Envs : e.KENDRA_ENABLED /\ ~e.KENDRA_DISABLE_FILTERING
                             /\ e.GEMINI_API_KEY = "key"
                             /\ e.GEMINI_MODEL = "gemini-1.5-flash"}
    /\ db = NoDb
    /\ req = <<>>
    /\ ext = NoExt
    /\ kcall \in {[args |-> Some(a), out |-> None] : a \in ShapedUris \cup OtherUris}

NormalizeCall ==
    /\ ~IsNone(kcall.args) /\ IsNone(kcall.out)
    /\ kcall' = [kcall EXCEPT !.out = Some(Normalize(Val(kcall.args).document_uri))]
    /\ UNCHANGED <<env, db, req, ext>>

NextNormalize == NormalizeCall

SpecNormalize == InitNormalize /\ [][NextNormalize]_vars

\* The key that the normalization of a returned for it
NormalizedOk(a, uri_to_check) ==
    IF a.shape = "other" THEN uri_to_check = a.document_uri
    ELSE Contains(uri_to_check, a.key)

\* C20: the normalization of a DocumentURI of one of the four shapes contains
\* the original key, and a string of no recognized prefix or a malformed one is
\* returned unchanged.
C20_NormalizationTotal ==
    (~IsNone(kcall.args) /\ ~IsNone(kcall.out)) =>
        NormalizedOk(Val(kcall.args), Val(kcall.out))


(***************************************************************************)
(* SpecGemini: one call of get_gemini_response, request by request         *)
(***************************************************************************)
\* What a POST can come to: a 200 with text, a 200 with a text of blanks
\* only, and every kind of failure
GeminiAttempts ==
    {Attempt("text", " First normal form has atomic values.\n"), Attempt("text", "  "),
     Attempt("no_text", ""), Attempt("api_error", "bad request"), Attempt("404", ""),
     Attempt("status", "quota exceeded"), Attempt("transport", "timed out"),
     Attempt("other", "Expecting value")}

\* script[i] is what the request to the i-th model of models_to_try comes to
GeminiCallScripts == [1..3 -> GeminiAttempts]

\* The call before its first statement
GeminiEntry(script) ==
    [ args |-> Some([full_prompt |-> "What is 1NF?", script |-> script]), out |-> None,
      pc |-> "start", i |-> 1, in_flight |-> {}, contacted |-> <<>>, last_error |-> "None" ]

InitGemini ==
    /\ env \in {e \in Envs : e.KENDRA_ENABLED /\ ~e.KENDRA_DISABLE_FILTERING}
    /\ db = NoDb
    /\ req = <<>>
    /\ ext = NoExt
    /\ kcall \in {GeminiEntry(script) : script \in GeminiCallScripts}

\* if not GEMINI_API_KEY: raise ValueError; or else the loop is entered
EnterGemini ==
    /\ kcall.pc = "start"
    /\ kcall' = IF env.GEMINI_API_KEY = ""
                THEN [kcall EXCEPT !.pc = "raised",
                        !.out = Some([raised |-> Some("GEMINI_API_KEY is not set in environment variables"),
                                      text |-> ""])]
                ELSE [kcall EXCEPT !.pc = "loop"]
    /\ UNCHANGED <<env, db, req, ext>>

\* await client.post(...) for the i-th model: the request is in flight
PostRequest ==
    /\ kcall.pc = "loop"
    /\ kcall.i <= Len(models_to_try)
    /\ kcall' = [kcall EXCEPT !.pc = "posting",
                    !.in_flight = kcall.in_flight \cup {models_to_try[kcall.i]},
                    !.contacted = Append(kcall.contacted, models_to_try[kcall.i])]
    /\ UNCHANGED <<env, db, req, ext>>

\* The text of the answering model is kept and the loop goes on with the next
\* model
OnSuccess_GoOn(k, attempt) ==
    [k EXCEPT !.pc = "loop", !.i = k.i + 1,
              !.out = IF IsNone(k.out) THEN Some([raised |-> None, text |-> Strip(attempt.text)])
                      ELSE k.out]

\* return parts[0]["text"].strip()
OnSuccess(k, attempt) ==
    [k EXCEPT !.pc = "returned", !.out = Some([raised |-> None, text |-> Strip(attempt.text)])]

\* The first failed attempt raises the failure
OnFailure_GiveUp(k, attempt) ==
    [k EXCEPT !.pc = "raised", !.last_error = AttemptError(attempt, models_to_try[k.i]),
              !.out = Some([raised |-> Some("Failed to get response from Gemini API"), text |-> ""])]

\* last_error = ...; continue
OnFailure(k, attempt) ==
    [k EXCEPT !.pc = "loop", !.i = k.i + 1,
              !.last_error = AttemptError(attempt, models_to_try[k.i])]

\* The awaited request completes: the response, or the exception, is handled
ReceiveResponse ==
    /\ kcall.pc = "posting"
    /\ kcall' = IF Val(kcall.args).script[kcall.i].kind = "text"
                THEN OnSuccess([kcall EXCEPT !.in_flight = {}], Val(kcall.args).script[kcall.i])
                ELSE OnFailure([kcall EXCEPT !.in_flight = {}], Val(kcall.args).script[kcall.i])
    /\ UNCHANGED <<env, db, req, ext>>

\* The loop ran out of models: raise Exception("Failed to get response ...")
RaiseFailure ==
    /\ kcall.pc = "loop"
    /\ kcall.i > Len(models_to_try)
    /\ kcall' = [kcall EXCEPT !.pc = "raised",
                    !.out = Some([raised |-> Some("Failed to get response from Gemini API after trying "
                                     \o IntStr(Len(models_to_try)) \o " models. Last error: "
                                     \o kcall.last_error \o ". Please check your GEMINI_API_KEY and "
                                     \o "ensure it has access to Gemini models."),
                                  text |-> ""])]
    /\ UNCHANGED <<env, db, req, ext>>

NextGemini == EnterGemini \/ PostRequest \/ ReceiveResponse \/ RaiseFailure

SpecGemini == InitGemini /\ [][NextGemini]_vars


\* The configured model first, then the fixed fallbacks that differ from it
ConfiguredOrder ==
    <<env.GEMINI_MODEL>>
    \o SelectSeq(<<"gemini-2.5-flash", "gemini-flash-latest">>, LAMBDA m : m /= env.GEMINI_MODEL)

\* The place in the configured order of the first model that answers with
\* status 200 and a text, 0 when none does
FirstAnswering(script) ==
    MinOr0({i \in 1..Len(ConfiguredOrder) : script[i].kind = "text"})

\* The call has returned a text
GeminiAnswered == ~IsNone(kcall.out) /\ IsNone(Val(kcall.out).raised)

\* C21: get_gemini_response contacts the models one at a time in the configured
\* order, never with two requests in flight, returns the stripped text of the
\* first model that answers with status 200 and a text, and contacts no later
\* model after that.
C21_SequentialFirstSuccess ==
    /\ Cardinality(kcall.in_flight) <= 1
    /\ Len(kcall.contacted) <= Len(ConfiguredOrder)
    /\ kcall.contacted = SubSeq(ConfiguredOrder, 1, Len(kcall.contacted))
    /\ kcall.pc = "posting" =>
          /\ kcall.in_flight = {ConfiguredOrder[Len(kcall.contacted)]}
          /\ \A j \in 1..(Len(kcall.contacted) - 1) : Val(kcall.args).script[j].kind /= "text"
    /\ GeminiAnswered =>
          /\ kcall.in_flight = {}
          /\ FirstAnswering(Val(kcall.args).script) = Len(kcall.contacted)
          /\ Len(kcall.contacted) > 0
          /\ Val(kcall.out).text = Strip(Val(kcall.args).script[Len(kcall.contacted)].text)

\* The first model failed, the second answered and the third was not contacted
C21_Witness ==
    /\ GeminiAnswered
    /\ Len(ConfiguredOrder) = 3
    /\ Len(kcall.contacted) = 2
    /\ Val(kcall.args).script[3].kind = "text"
    /\ Val(kcall.out).text = "First normal form has atomic values."


(***************************************************************************)
(* The prompt template of a turn                                           *)
(***************************************************************************)
EndsWith(s, p) == Len(p) <= Len(s) /\ From(s, Len(s) - Len(p) + 1) = p

\* prompt is of the template with the <context> block around context_text
UsesContextTemplate(prompt, context_text) ==
    /\ Contains(prompt, "\n\n<context>\n" \o context_text \o "\n</context>\n\n")
    /\ EndsWith(prompt, ContextInstruction)
    /\ ~Contains(prompt, NoContextNotice)

\* prompt is of the template that says no context was found
UsesNoContextTemplate(prompt) ==
    /\ Contains(prompt, "\n\n" \o NoContextNotice \o "\n\n")
    /\ ~Contains(prompt, "\n<context>\n")
    /\ ~EndsWith(prompt, ContextInstruction)

\* The primary retrieval of rq returned two DOCUMENT results
TwoDocuments(rq) ==
    /\ Len(rq.kendra_results) = 2
    /\ \A i \in 1..2 : rq.kendra_results[i].type = "DOCUMENT"

\* C22: the prompt of a turn is of the template with the <context> block and
\* the instruction to answer from it exactly when the context text is
\* non-empty, and of the "No context was found" template otherwise; when the
\* primary retrieval returned two accepted DOCUMENT hits the context holds
\* both, the source list has two records and the context template is used.
C22_TemplateSelection ==
    \A r \in Req :
        /\ req[r].pc = "prompt" =>
              UsesNoContextTemplate(full_prompt(req[r].subject_name, "", req[r].question))
        /\ PromptBuilt(r) =>
              /\ IF req[r].context_text /= ""
                 THEN UsesContextTemplate(req[r].full_prompt, req[r].context_text)
                 ELSE UsesNoContextTemplate(req[r].full_prompt)
              /\ TwoDocuments(req[r]) =>
                    /\ BlockPlace(req[r], 1) > 0
                    /\ BlockPlace(req[r], 1) < BlockPlace(req[r], 2)
                    /\ Len(req[r].sources) = 2
                    /\ UsesContextTemplate(req[r].full_prompt, req[r].context_text)

\* The prompt of a turn was built after a primary retrieval of two DOCUMENT
\* hits
C22_Witness ==
    \E r \in Req :
        /\ PromptBuilt(r)
        /\ TwoDocuments(req[r])
        /\ req[r].primary = "nonempty"
        /\ req[r].full_prompt /= ""


(***************************************************************************)
(* SpecOwner: turns on a chat that may be another student's                *)
(***************************************************************************)
OtherStudent == [id |-> 7, university_id |-> 1]

InitOwner ==
    /\ env \in {e \in Envs : ~e.KENDRA_DISABLE_FILTERING /\ e.GEMINI_API_KEY = "key"
                             /\ e.GEMINI_MODEL = "gemini-1.5-flash"}
    /\ db = [NoDb EXCEPT !.student_branch_id = Some(Branch.id)]
    /\ req = [r \in Req |-> IdleReq]
    /\ ext = NoExt
    /\ kcall = NoCall

\* start_chat called by another student: the chat row is that student's
OtherStartsChat(subject_id) ==
    /\ IsNone(db.chat)
    /\ db' = [db EXCEPT !.chat =
                Some([ id |-> 1, student_id |-> OtherStudent.id, subject_id |-> subject_id,
                       title |-> IF Truthy(subject_id) THEN Some("New chat")
                                 ELSE Some("Branch Chat") ])]
    /\ UNCHANGED <<env, req, ext, kcall>>

NextOwner ==
    \/ \E subject_id \in {None, Some(Subject.id)} : StartChat(subject_id)
    \/ \E subject_id \in {None, Some(Subject.id)} : OtherStartsChat(subject_id)
    \/ \E r \in Req, chat_id \in {1, 9}, question \in {QShort, " New chat "} :
          Validate(r, chat_id, question)
    \/ \E r \in Req, response \in ConcResponses : PrimaryRetrieval(r, response)
    \/ \E r \in Req : SkipPrimary(r)
    \/ \E r \in Req : FallbackLocal(r)
    \/ \E r \in Req : SkipFallback(r)
    \/ \E r \in Req : PersistUser(r)
    \/ \E r \in Req : AutoTitle(r)
    \/ \E r \in Req : CallGemini(r)
    \/ \E r \in Req, script \in ConcScripts : GeminiReturns(r, script)
    \/ \E r \in Req : PersistBot(r)

SpecOwner == InitOwner /\ [][NextOwner]_vars

\* Request r was made and no chat of its chat id belongs to the student
NotOwned(r) ==
    /\ req[r].pc /= "idle"
    /\ \/ IsNone(db.chat)
       \/ Val(db.chat).id /= req[r].chat_id
       \/ Val(db.chat).student_id /= Student.id

\* Request r left nothing behind: no message, no title, no retrieval, no prompt
LeftNoTrace(r) ==
    /\ MessagesOf(r, "USER") = {} /\ MessagesOf(r, "BOT") = {}
    /\ IsNone(req[r].updated_title)
    /\ req[r].primary = "none" /\ IsNone(req[r].primary_scope)
    /\ ~req[r].fallback_ran
    /\ req[r].full_prompt = "" /\ req[r].answer_text = ""

\* C23: a request for a chat id that does not exist or is not the student's
\* fails with 403 and changes nothing: no USER or BOT message, no title change,
\* no call of the search service or of the LLM.
C23_OwnershipCheck ==
    /\ \A r \in Req :
          NotOwned(r) =>
             /\ req[r].pc = "raised"
             /\ req[r].error = Some(HTTPException(403, "Chat not found or access denied"))
             /\ LeftNoTrace(r)
    /\ (\A r \in Req : req[r].pc = "idle" \/ NotOwned(r)) =>
          /\ db.messages = <<>>
          /\ ext = NoExt
          /\ IsNone(db.chat) \/ Val(db.chat).title \in {Some("New chat"), Some("Branch Chat")}

\* A request was made on the chat of another student, and one on a chat id
\* that no chat has
C23_Witness ==
    /\ ~IsNone(db.chat) /\ Val(db.chat).student_id = OtherStudent.id
    /\ \E r, q \in Req :
          /\ NotOwned(r) /\ req[r].chat_id = 1
          /\ NotOwned(q) /\ req[q].chat_id = 9


(***************************************************************************)
(* The fallback retriever of a turn                                        *)
(***************************************************************************)
\* The places in chunks of the chunks whose keywords are non-empty and have a
\* keyword inside the lower-cased question, or a question word of more than
\* two characters inside a keyword
MatchingPlaces(chunks, question) ==
    {i \in 1..Len(chunks) :
        /\ ~IsNone(chunks[i].keywords)
        /\ KeywordsOf(Val(chunks[i].keywords)) /= {}
        /\ \E kw \in KeywordsOf(Val(chunks[i].keywords)) :
              \/ Contains(Lower(question), kw)
              \/ \E qw \in Runs(Lower(question), {" ", "\t", "\n", "\r"}) :
                    Len(qw) > 2 /\ Contains(kw, qw)}

\* The n lowest places of P
LowestPlaces(P, n) == {i \in P : Cardinality({j \in P : j < i}) < n}

\* The chunks of seq at the places P, in the order of seq
ChunksAt(chunks, P) ==
    [k \in 1..Cardinality(P) |->
        chunks[CHOOSE i \in P : Cardinality({j \in P : j < i}) = k - 1]]

\* The chunks fetched for the fallback of request rq
FallbackChunks(rq) == ChunksOf(Val(rq.fallback_scope))

\* C24: the keyword tier of the fallback of a turn yields the first chunks of
\* the scope, five at most and in storage order, whose keywords are non-empty
\* and match the question, and never a chunk with empty keywords.
C24_KeywordTier ==
    \A r \in Req :
        (req[r].fallback_ran /\ MatchingPlaces(FallbackChunks(req[r]), req[r].question) /= {}) =>
            /\ IsNone(req[r].error)
            /\ req[r].relevant_chunks =
                  ChunksAt(FallbackChunks(req[r]),
                           LowestPlaces(MatchingPlaces(FallbackChunks(req[r]), req[r].question), 5))
            /\ \A i \in 1..Len(req[r].relevant_chunks) :
                  req[r].relevant_chunks[i].keywords \notin {None, Some("")}

\* C25: when the fallback of a turn runs and no chunk of the scope matches by
\* keyword, the chunks used are the first min(3, n) of the n >= 1 chunks of
\* the scope, and the fallback context is empty only when the scope has no
\* chunk.
C25_DegradationLadder ==
    \A r \in Req :
        req[r].fallback_ran =>
            /\ (MatchingPlaces(FallbackChunks(req[r]), req[r].question) = {}
                /\ Len(FallbackChunks(req[r])) >= 1) =>
                  /\ IsNone(req[r].error)
                  /\ req[r].relevant_chunks = ChunksAt(FallbackChunks(req[r]),
                                                      LowestPlaces(1..Len(FallbackChunks(req[r])), 3))
            /\ req[r].context_text = "" <=> FallbackChunks(req[r]) = <<>>


(***************************************************************************)
(* SpecGeminiLive: the call under a scheduler that runs the coroutine and   *)
(* a transport that answers or times out (timeout=30.0)                    *)
(***************************************************************************)
SpecGeminiLive == InitGemini /\ [][NextGemini]_vars /\ WF_vars(NextGemini)

\* The call is over
GeminiEnded == kcall.pc \in {"returned", "raised"}

\* The call raised the failure of the loop, not the missing-key error
GeminiFailed ==
    /\ ~IsNone(kcall.out) /\ ~IsNone(Val(kcall.out).raised)
    /\ StartsWith(Val(Val(kcall.out).raised), "Failed to get response from Gemini API")

\* The first n requests of the script all failed
AllFailed(script, n) == \A j \in 1..n : script[j].kind /= "text"

\* Each identifier is attempted once at most, a failed attempt of any kind
\* moves on to the next identifier, and the failure is raised exactly when
\* every identifier was attempted and failed
AttemptsInOrder ==
    /\ \A a, b \in 1..Len(kcall.contacted) : a /= b => kcall.contacted[a] /= kcall.contacted[b]
    /\ Len(kcall.contacted) <= Len(ConfiguredOrder)
    /\ kcall.pc = "loop" =>
          /\ kcall.i = Len(kcall.contacted) + 1
          /\ AllFailed(Val(kcall.args).script, Len(kcall.contacted))
    /\ kcall.pc = "posting" => kcall.i = Len(kcall.contacted)
    /\ GeminiFailed =>
          /\ kcall.contacted = ConfiguredOrder
          /\ AllFailed(Val(kcall.args).script, Len(ConfiguredOrder))
    /\ (GeminiEnded /\ env.GEMINI_API_KEY /= ""
        /\ AllFailed(Val(kcall.args).script, Len(ConfiguredOrder))) => GeminiFailed
    /\ (GeminiEnded /\ env.GEMINI_API_KEY /= "" /\ ~GeminiFailed) =>
          /\ Len(kcall.contacted) >= 1
          /\ Val(kcall.args).script[Len(kcall.contacted)].kind = "text"

\* C26: get_gemini_response always terminates; each distinct model identifier
\* is attempted at most once, every kind of failed attempt moves on to the
\* next identifier, and the failure exception is raised if and only if every
\* identifier was attempted and failed.
C26_Termination == []AttemptsInOrder /\ <>GeminiEnded

\* The failure was raised after three attempts that failed in three ways, and a
\* configured model equal to a fallback was attempted once
C26_Witness ==
    /\ GeminiFailed
    /\ \/ /\ Len(kcall.contacted) = 3
          /\ Val(kcall.args).script[1].kind = "404"
          /\ Val(kcall.args).script[2].kind = "no_text"
          /\ Val(kcall.args).script[3].kind = "transport"
       \/ /\ env.GEMINI_MODEL = "gemini-2.5-flash"
          /\ kcall.contacted = <<"gemini-2.5-flash", "gemini-flash-latest">>
          /\ Val(kcall.args).script[1].kind = "status"
          /\ Val(kcall.args).script[2].kind = "other"


(***************************************************************************)
(* SpecPage: the page number query_kendra extracts from one hit            *)
(***************************************************************************)
\* Python values of the attributes: None, an int, a str
PyNone == [type |-> "none", int |-> 0, str |-> ""]
PyInt(n) == [type |-> "int", int |-> n, str |-> ""]
PyStr(t) == [type |-> "str", int |-> 0, str |-> t]

\* bool(v)
PyTruthy(v) ==
    \/ v.type = "int" /\ v.int /= 0
    \/ v.type = "str" /\ v.str /= ""

\* a or b
PyOr(a, b) == IF PyTruthy(a) THEN a ELSE b

\* attr["Value"]: a dict with LongValue, NumberValue, TextValue (an absent key
\* reads as None), or a value that is no dict
DictValue(long, number, text) ==
    [dict |-> TRUE, LongValue |-> long, NumberValue |-> number, TextValue |-> text,
     scalar |-> PyNone]
ScalarValue(v) ==
    [dict |-> FALSE, LongValue |-> PyNone, NumberValue |-> PyNone, TextValue |-> PyNone,
     scalar |-> v]

PageKeys == {"_excerpt_page_number", "_page_number", "PageNumber", "page_number", "_document_page"}

\* Method 1: LongValue or NumberValue or TextValue, or the value itself
DocumentAttributeValue(value_obj) ==
    IF value_obj.dict
    THEN PyOr(PyOr(value_obj.LongValue, value_obj.NumberValue), value_obj.TextValue)
    ELSE value_obj.scalar

\* Method 2: NumberValue or TextValue or LongValue, or the value itself
AdditionalAttributeValue(value_obj) ==
    IF value_obj.dict
    THEN PyOr(PyOr(value_obj.NumberValue, value_obj.TextValue), value_obj.LongValue)
    ELSE value_obj.scalar

\* The loops over DocumentAttributes (primary) and AdditionalAttributes: the
\* value of the first attribute of an accepted key that is not None
RECURSIVE PageOfAttributes(_, _)
PageOfAttributes(attributes, primary) ==
    IF attributes = <<>> THEN PyNone
    ELSE IF Head(attributes).Key \notin PageKeys
    THEN PageOfAttributes(Tail(attributes), primary)
    ELSE IF (IF primary THEN DocumentAttributeValue(Head(attributes).Value)
             ELSE AdditionalAttributeValue(Head(attributes).Value)) /= PyNone
    THEN (IF primary THEN DocumentAttributeValue(Head(attributes).Value)
          ELSE AdditionalAttributeValue(Head(attributes).Value))
    ELSE PageOfAttributes(Tail(attributes), primary)

\* Method 3: excerpt_metadata.get("PageNumber") or excerpt_metadata.get("page_number")
PageOfMetadata(excerpt_metadata) ==
    PyOr(excerpt_metadata.PageNumber, excerpt_metadata.page_number)

\* A page found in the metadata is used when the attributes gave None
OrMetadata(found, item) == IF found /= PyNone THEN found ELSE PageOfMetadata(item.Metadata)

\* The additional attributes are read when the document attributes gave None
OrAdditional(found, item) ==
    IF found /= PyNone THEN found ELSE PageOfAttributes(item.AdditionalAttributes, FALSE)

\* page_number of a hit
ExtractPage(item) ==
    OrMetadata(OrAdditional(PageOfAttributes(item.DocumentAttributes, TRUE), item), item)

PageValues ==
    {DictValue(PyNone, PyNone, PyNone), DictValue(PyInt(4), PyNone, PyNone),
     DictValue(PyInt(0), PyNone, PyNone), DictValue(PyNone, PyNone, PyStr("7")),
     ScalarValue(PyInt(9))}

PageAttributes == [Key : {"_excerpt_page_number", "_source_uri"}, Value : PageValues]

PageItems ==
    [ DocumentAttributes : SeqsUpTo(PageAttributes, 2),
      AdditionalAttributes : SeqsUpTo(PageAttributes, 1),
      Metadata : {[PageNumber |-> a, page_number |-> b] :
                     a \in {PyNone, PyInt(3)}, b \in {PyNone, PyInt(0)}} ]

InitPage ==
    /\ env \in {e \in Envs : e.KENDRA_ENABLED /\ ~e.KENDRA_DISABLE_FILTERING
                             /\ e.GEMINI_API_KEY = "key"
                             /\ e.GEMINI_MODEL = "gemini-1.5-flash"}
    /\ db = NoDb
    /\ req = <<>>
    /\ ext = NoExt
    /\ kcall \in {[args |-> Some(item), out |-> None] : item \in PageItems}

PageCall ==
    /\ ~IsNone(kcall.args) /\ IsNone(kcall.out)
    /\ kcall' = [kcall EXCEPT !.out = Some(ExtractPage(Val(kcall.args)))]
    /\ UNCHANGED <<env, db, req, ext>>

NextPage == PageCall

SpecPage == InitPage /\ [][NextPage]_vars

\* The values other than None that value_obj holds
HeldIn(value_obj) ==
    {v \in {value_obj.LongValue, value_obj.NumberValue, value_obj.TextValue, value_obj.scalar} :
        v /= PyNone}

\* The values other than None that the list holds under an accepted key
HeldUnderPageKey(attributes) ==
    UNION {HeldIn(attributes[i].Value) :
              i \in {j \in 1..Len(attributes) : attributes[j].Key \in PageKeys}}

HeldInMetadata(excerpt_metadata) ==
    {v \in {excerpt_metadata.PageNumber, excerpt_metadata.page_number} : v /= PyNone}

\* page is a value of the first of the three locations of item that holds a
\* value other than None under an accepted key, None when none does
IsFirstHeld(item, page) ==
    IF HeldUnderPageKey(item.DocumentAttributes) /= {}
    THEN page \in HeldUnderPageKey(item.DocumentAttributes)
    ELSE IF HeldUnderPageKey(item.AdditionalAttributes) /= {}
    THEN page \in HeldUnderPageKey(item.AdditionalAttributes)
    ELSE IF HeldInMetadata(item.Metadata) /= {}
    THEN page \in HeldInMetadata(item.Metadata)
    ELSE page = PyNone

\* C27: the page number of a result is the value found at the first of
\* DocumentAttributes, AdditionalAttributes and DocumentExcerpt.Metadata that
\* holds a non-null value under an accepted key, and it is null only when all
\* three hold none.
C27_PageNumber ==
    (~IsNone(kcall.args) /\ ~IsNone(kcall.out)) =>
        IsFirstHeld(Val(kcall.args), Val(kcall.out))


(***************************************************************************)
(* SpecExcerpt: one call of query_kendra on hits of every kind and text    *)
(***************************************************************************)
ExcerptTexts == <<"", "  \n", GoodExcerpt>>
AnswerAttributes == <<None, Some(""), Some(" \t"), Some(ShortExcerpt)>>

\* An in-scope hit of the type with the e-th DocumentExcerpt text and the a-th
\* AnswerText attribute, its title telling which
ExcerptHit(type, e, a) ==
    Hit("s3://bucket/universities/1/branches/2/subjects/3/materials/a.pdf", type,
        type \o "-" \o IntStr(e) \o "-" \o IntStr(a), ExcerptTexts[e], AnswerAttributes[a])

ExcerptHits ==
    {ExcerptHit(type, e, a) : type \in {"DOCUMENT", "ANSWER", "QUESTION_ANSWER"},
                              e \in DOMAIN ExcerptTexts, a \in DOMAIN AnswerAttributes}

InitExcerpt ==
    /\ env \in {e \in Envs : e.KENDRA_ENABLED /\ e.GEMINI_API_KEY = "key"
                             /\ e.GEMINI_MODEL = "gemini-1.5-flash"}
    /\ db = NoDb
    /\ req = <<>>
    /\ ext = NoExt
    /\ kcall \in {[args |-> Some([ university_id |-> Student.university_id,
                                   subject_id |-> Some(Subject.id), branch_id |-> None,
                                   max_results |-> ChatMaxResults, disable_filtering |-> d,
                                   response |-> [error |-> FALSE, items |-> items] ]),
                   out |-> None] :
                     d \in BOOLEAN, items \in SeqsUpTo(ExcerptHits, MaxItems)}

SpecExcerpt == InitExcerpt /\ [][NextKendra]_vars

\* The text of a hit by its kind: DocumentExcerpt.Text of a DOCUMENT hit, the
\* AnswerText of an ANSWER hit or DocumentExcerpt.Text when that is empty, and
\* nothing for any other kind
TextByKind(item) ==
    CASE item.Type = "DOCUMENT" -> item.ExcerptText
      [] item.Type = "ANSWER" ->
            IF item.AnswerText \in {None, Some("")} THEN item.ExcerptText
            ELSE Val(item.AnswerText)
      [] OTHER -> ""

\* The results of the hit item
ResultsOf(item, results) ==
    {n \in 1..Len(results) : results[n].document_title = item.DocumentTitle}

\* C28: the text of a returned DOCUMENT hit is its DocumentExcerpt.Text, that
\* of a returned ANSWER hit its AnswerText, or DocumentExcerpt.Text when the
\* AnswerText is empty; a hit whose text is empty or blank, as that of every
\* hit of another type is, is never returned.
C28_ExcerptByKind ==
    KendraReturned =>
        \A i \in 1..Len(Val(kcall.args).response.items) :
            /\ \A n \in ResultsOf(Val(kcall.args).response.items[i], Val(kcall.out).results) :
                  /\ Val(kcall.out).results[n].excerpt =
                        TextByKind(Val(kcall.args).response.items[i])
                  /\ Val(kcall.out).results[n].type \in {"DOCUMENT", "ANSWER"}
            /\ Strip(TextByKind(Val(kcall.args).response.items[i])) = "" =>
                  ResultsOf(Val(kcall.args).response.items[i], Val(kcall.out).results) = {}
            /\ (/\ Val(kcall.args).response.items[i].Type = "ANSWER"
                /\ Strip(TextByKind(Val(kcall.args).response.items[i])) /= "") =>
                  ResultsOf(Val(kcall.args).response.items[i], Val(kcall.out).results) /= {}

\* An ANSWER hit with an empty AnswerText was returned with the text of its
\* DocumentExcerpt, and a hit of another type with the same text was not
C28_Witness ==
    /\ KendraReturned
    /\ Val(kcall.args).response.items =
          <<ExcerptHit("QUESTION_ANSWER", 3, 4), ExcerptHit("ANSWER", 3, 2)>>
    /\ Len(Val(kcall.out).results) = 1
    /\ Val(kcall.out).results[1].type = "ANSWER"
    /\ Val(kcall.out).results[1].excerpt = GoodExcerpt


(***************************************************************************)
(* Non-interference of the hits outside the scope of a call                *)
(***************************************************************************)
\* The hits of items whose normalized key has the segments of the tenant and
\* of the scope of the call of arguments a, in their order
InScopeHits(items, a) ==
    SelectSeq(items, LAMBDA item : InScope(Normalize(item.DocumentURI), a))

\* What the call of arguments a returns on the hit list items
ResultsOn(a, items) ==
    query_kendra("what is normalization", a.university_id, a.subject_id, a.branch_id,
                 a.max_results, a.disable_filtering, [error |-> FALSE, items |-> items]).results

\* C29: with filtering on, what query_kendra returns depends on the in-scope
\* hits of the raw response only: it returns what it returns on the raw list
\* with the hits of other tenants, subjects and branches taken out, so two raw
\* lists with the same in-scope hits in the same order give the same results.
C29_NonInterference ==
    KendraReturnedFiltered =>
        Val(kcall.out).results =
            ResultsOn(Val(kcall.args),
                      InScopeHits(Val(kcall.args).response.items, Val(kcall.args)))


(***************************************************************************)
(* email_service.py: send_bulk_student_credentials_emails                  *)
(* req holds the tasks of the gather, ext the semaphore and the failed     *)
(* list, kcall the students and the returned dict                          *)
(***************************************************************************)
MaxStudents == 6

\* asyncio.Semaphore(5)
SemaphoreLimit == 5

\* A student dict, with its keys or without the 'email' key
StudentData(i, keyed) ==
    [email |-> "s" \o IntStr(i) \o "@example.edu", name |-> "Student", keyed |-> keyed]

\* The student lists of a call: up to MaxStudents dicts, the last of which may
\* lack its keys
StudentLists ==
    {[i \in 1..n |-> StudentData(i, i < n \/ keyed)] : n \in 0..MaxStudents, keyed \in BOOLEAN}

InitEmail ==
    /\ env \in {[EMAIL_ENABLED |-> b] : b \in BOOLEAN}
    /\ db = NoDb
    /\ req = <<>>
    /\ ext = [semaphore |-> SemaphoreLimit, failed |-> <<>>, gathered |-> FALSE]
    /\ kcall \in {[args |-> Some(students), out |-> None] : students \in StudentLists}

\* tasks = [send_with_limit(student) for student in students]; gather(*tasks)
GatherTasks ==
    /\ ~ext.gathered
    /\ req' = [t \in 1..Len(Val(kcall.args)) |->
                 [pc |-> "ready", student_data |-> Val(kcall.args)[t], result |-> "none"]]
    /\ ext' = [ext EXCEPT !.gathered = TRUE]
    /\ UNCHANGED <<env, db, kcall>>

\* The semaphore is entered whatever its value
Acquire_NoLimit(t) ==
    /\ req[t].pc = "ready"
    /\ req' = [req EXCEPT ![t] = [req[t] EXCEPT !.pc = "acquired"]]
    /\ ext' = [ext EXCEPT !.semaphore = ext.semaphore - 1]
    /\ UNCHANGED <<env, db, kcall>>

\* async with semaphore: the task enters when the value is positive
Acquire(t) ==
    /\ req[t].pc = "ready"
    /\ ext.semaphore > 0
    /\ req' = [req EXCEPT ![t] = [req[t] EXCEPT !.pc = "acquired"]]
    /\ ext' = [ext EXCEPT !.semaphore = ext.semaphore - 1]
    /\ UNCHANGED <<env, db, kcall>>

\* The failed list after a task ended with success, or not
FailedAfter(failed, student_data, success) ==
    IF success THEN failed
    ELSE Append(failed, [email |-> student_data.email, name |-> student_data.name,
                         error |-> "Failed to send email"])

\* The task leaves the semaphore with its result
Leave(t, result) ==
    /\ req' = [req EXCEPT ![t] = [req[t] EXCEPT !.pc = "done", !.result = result]]
    /\ ext' = [ext EXCEPT !.semaphore = ext.semaphore + 1,
                          !.failed = IF result = "KeyError" THEN ext.failed
                                     ELSE FailedAfter(ext.failed, req[t].student_data,
                                                      result = "True")]
    /\ UNCHANGED <<env, db, kcall>>

\* student_data['email'] of a dict without the key raises KeyError inside the
\* async with block; gather returns the exception as the task's result
TaskRaises(t) ==
    /\ req[t].pc = "acquired"
    /\ ~req[t].student_data.keyed
    /\ Leave(t, "KeyError")

\* send_student_credentials_email returns False at once when e-mail is not
\* configured
SkipSend(t) ==
    /\ req[t].pc = "acquired"
    /\ req[t].student_data.keyed
    /\ ~env.EMAIL_ENABLED
    /\ Leave(t, "False")

\* await fm.send_message(message): the send is in flight
BeginSend(t) ==
    /\ req[t].pc = "acquired"
    /\ req[t].student_data.keyed
    /\ env.EMAIL_ENABLED
    /\ req' = [req EXCEPT ![t] = [req[t] EXCEPT !.pc = "sending"]]
    /\ UNCHANGED <<env, db, ext, kcall>>

\* The send ends: with success, or with an exception that is caught
SendEnds(t, success) ==
    /\ req[t].pc = "sending"
    /\ Leave(t, IF success THEN "True" ELSE "False")

\* sent = sum(1 for result in results if result is True); return {...}
GatherReturns ==
    /\ ext.gathered /\ IsNone(kcall.out)
    /\ \A t \in DOMAIN req : req[t].pc = "done"
    /\ kcall' = [kcall EXCEPT !.out =
                    Some([sent |-> Cardinality({t \in DOMAIN req : req[t].result = "True"}),
                          failed |-> ext.failed, total |-> Len(Val(kcall.args))])]
    /\ UNCHANGED <<env, db, req, ext>>

NextEmail ==
    \/ GatherTasks
    \/ \E t \in DOMAIN req : Acquire(t)
    \/ \E t \in DOMAIN req : TaskRaises(t)
    \/ \E t \in DOMAIN req : SkipSend(t)
    \/ \E t \in DOMAIN req : BeginSend(t)
    \/ \E t \in DOMAIN req, success \in BOOLEAN : SendEnds(t, success)
    \/ GatherReturns

SpecEmail == InitEmail /\ [][NextEmail]_vars

\* The tasks whose send is in flight
InFlight == {t \in DOMAIN req : req[t].pc = "sending"}

\* C30: during a call of send_bulk_student_credentials_emails never more than
\* 5 credential e-mail sends are in flight at the same time.
C30_BoundedConcurrency ==
    /\ Cardinality(InFlight) <= 5
    /\ ext.semaphore >= 0
    /\ ext.semaphore + Cardinality({t \in DOMAIN req : req[t].pc \in {"acquired", "sending"}}) = 5

\* Five sends are in flight and a sixth task waits for the semaphore
C30_Witness ==
    /\ Cardinality(InFlight) = 5
    /\ \E t \in DOMAIN req : req[t].pc = "ready"
    /\ ext.semaphore = 0


====
